---------------------------- MODULE Spec2Model ----------------------------
(***************************************************************************)
(* A model of the chaos-aware mock AI server (simulated-scale/             *)
(* mock_ai_server.py), of the staged load shape that drives it             *)
(* (simulated-scale/locust_load_test.py) and of the streaming generator of *)
(* the mock LLM server (healthcare-agent-gke-autopilot/.../                *)
(* mock_llm_server.py), of one virtual user of the Parlant load test       *)
(* (healthcare-agent-gke-autopilot/load_testing/locust_load_test.py) and   *)
(* of the tasks of the chaos load test (simulated-scale/                   *)
(* locust_load_test.py).                                                   *)
(*                                                                         *)
(* Times of the chaos server are counted in half seconds: 0.5 s is 1,      *)
(* 2.0 s is 4, 3.0 s is 6 and 8.0 s is 16.  Probabilities are counted in   *)
(* percent: error_rate 0.0 is 0, and a draw of random.random() is a value  *)
(* of 0..99.  Times of the mock LLM server are counted in twentieths of a  *)
(* second, those of the Parlant user in seconds and the round trips of     *)
(* the chaos load test in tenths of a second.                              *)
(***************************************************************************)
EXTENDS Integers, Sequences, FiniteSets, TLC

VARIABLES
    SIMULATION_CONFIG,  \* the module-level dictionary of mock_ai_server.py
    requests,           \* the chat and analyze requests, by request id
    running,            \* the request whose handler is inside its busy loop, or NoReq
    run_time,           \* StagedRampUp.get_run_time(): seconds since the test started
    last_tick,          \* what the latest call of StagedRampUp.tick saw and returned
    TOKEN_COUNT,        \* MOCK_TOKEN_COUNT as the mock LLM server read it
    MIN_LATENCY,        \* MOCK_MIN_LATENCY as it read it, in twentieths of a second
    MAX_LATENCY,        \* MOCK_MAX_LATENCY as it read it, in twentieths of a second
    gen_pc,             \* where generate_streaming_response stands
    gen_i,              \* its loop index i
    stream,             \* the items it has yielded so far
    sleeps,             \* the suspensions it has been through, in order
    POLL_TIMEOUT,       \* POLL_TIMEOUT as the Parlant load test read it (seconds)
    agent_id,           \* ParlantUser.agent_id
    session_id,         \* ParlantUser.session_id
    last_offset,        \* ParlantUser.last_offset
    user_pc,            \* where the user stands: new, idle, polling, polled
    elapsed,            \* time.time() - start_time of the turn in progress
    poll_result,        \* what _poll_for_response returned
    turn,               \* what has happened in the turn in progress
    last_poll,          \* the latest poll request of the turn and its answer
    measurement,        \* the turn measurement fired in this turn
    task,               \* the AIUser task that ran last
    task_status,        \* response.status_code of its request
    task_elapsed,       \* the round trip of its request, in tenths of a second
    task_marks,         \* the success() and failure() calls of its block
    task_report,        \* what was reported for the request
    schema_in,          \* the argument of a call of generate_mock_from_schema
    schema_out,         \* what the call returned
    llm_request,        \* the request of a call of generate_content
    llm_response,       \* what the handler answered
    embed_request,      \* the request to an embedding route of the mock LLM server
    embed_response      \* what the route answered

chaosVars == <<SIMULATION_CONFIG, requests, running>>
shapeVars == <<run_time, last_tick>>
streamVars == <<TOKEN_COUNT, MIN_LATENCY, MAX_LATENCY, gen_pc, gen_i, stream, sleeps>>
parlantVars == <<POLL_TIMEOUT, agent_id, session_id, last_offset, user_pc,
                 elapsed, poll_result, turn, last_poll, measurement>>
taskVars == <<task, task_status, task_elapsed, task_marks, task_report>>
schemaVars == <<schema_in, schema_out>>
generateVars == <<llm_request, llm_response>>
embedVars == <<embed_request, embed_response>>

vars == <<SIMULATION_CONFIG, requests, running, run_time, last_tick,
          TOKEN_COUNT, MIN_LATENCY, MAX_LATENCY, gen_pc, gen_i, stream, sleeps,
          POLL_TIMEOUT, agent_id, session_id, last_offset, user_pc,
          elapsed, poll_result, turn, last_poll, measurement,
          task, task_status, task_elapsed, task_marks, task_report,
          schema_in, schema_out, llm_request, llm_response,
          embed_request, embed_response>>

\* what the steps of one program leave alone: the state of the others
notChaos == <<shapeVars, streamVars, parlantVars, taskVars, schemaVars, generateVars,
              embedVars>>
notShape == <<chaosVars, streamVars, parlantVars, taskVars, schemaVars, generateVars,
              embedVars>>
notStream == <<chaosVars, shapeVars, parlantVars, taskVars, schemaVars, generateVars,
              embedVars>>
notParlant == <<chaosVars, shapeVars, streamVars, taskVars, schemaVars, generateVars,
              embedVars>>
notTasks == <<chaosVars, shapeVars, streamVars, parlantVars, schemaVars, generateVars,
              embedVars>>
notSchema == <<chaosVars, shapeVars, streamVars, parlantVars, taskVars,
              generateVars, embedVars>>
notGenerate == <<chaosVars, shapeVars, streamVars, parlantVars, taskVars,
                schemaVars, embedVars>>
notEmbed == <<chaosVars, shapeVars, streamVars, parlantVars, taskVars,
             schemaVars, generateVars>>

-----------------------------------------------------------------------------
(* Bounds of the model *)

MaxReq == 2     \* chat and analyze requests submitted in one run
MaxAge == 6     \* the longest a request is followed (half seconds)
MaxRunTime == 125       \* the load test is followed this long (seconds)
MaxTokenCount == 30     \* the largest MOCK_TOKEN_COUNT tried
MaxNegTokenCount == 2   \* the most negative MOCK_TOKEN_COUNT tried
MaxPollTimeout == 3     \* the largest POLL_TIMEOUT tried (seconds)
MaxCallTime == 2        \* the longest one HTTP call takes (seconds)
MaxOffset == 2          \* the largest offset an event carries
MaxElapsed == 25        \* the longest round trip of a task (tenths of a second)
MaxDepth == 2           \* the deepest nesting of a response schema
MaxBatch == 3           \* the largest batch of an embedding request

Req == 1..MaxReq
NoReq == 0

-----------------------------------------------------------------------------
(* SimulationState *)

\* "x" * 1024 * 1024: one leaked block
LeakBlock == "x*1048576"

\* SIMULATION_CONFIG as the module defines it
InitialConfig ==
    [ latency_min        |-> 1,
      latency_max        |-> 4,
      error_rate         |-> 0,
      memory_leak_active |-> FALSE,
      cpu_stress_active  |-> FALSE,
      memory_store       |-> << >> ]

\* a latency spike that looks at the state first: not while a leak is on
ApplyLatencySpikeUnlessLeak(cfg) ==
    IF cfg.memory_leak_active THEN cfg
    ELSE [cfg EXCEPT !.latency_min = 6, !.latency_max = 16]

\* a latency spike that raises the minimum only
ApplyLatencySpikeMinOnly(cfg) ==
    [cfg EXCEPT !.latency_min = 6]

\* the assignments of trigger_latency_spike
ApplyLatencySpike(cfg) ==
    [cfg EXCEPT !.latency_min = 6, !.latency_max = 16]

\* a memory-leak switch that toggles the flag
ApplyMemoryLeakToggles(cfg) ==
    [cfg EXCEPT !.memory_leak_active = ~@]

\* the assignment of trigger_memory_leak
ApplyMemoryLeak(cfg) ==
    [cfg EXCEPT !.memory_leak_active = TRUE]

\* a CPU spike that switches the leak off
ApplyCpuSpikeClearsLeak(cfg) ==
    [cfg EXCEPT !.cpu_stress_active = TRUE, !.memory_leak_active = FALSE]

\* a CPU spike that also injects errors
ApplyCpuSpikeWithErrors(cfg) ==
    [cfg EXCEPT !.cpu_stress_active = TRUE, !.error_rate = 50]

\* the assignment of trigger_cpu_spike
ApplyCpuSpike(cfg) ==
    [cfg EXCEPT !.cpu_stress_active = TRUE]

\* a reset that forgets to free the leaked memory
ApplyResetKeepsStore(cfg) ==
    [cfg EXCEPT !.latency_min = 1, !.latency_max = 4, !.error_rate = 0,
                !.memory_leak_active = FALSE, !.cpu_stress_active = FALSE]

\* the six assignments of reset_simulation
ApplyReset(cfg) ==
    [cfg EXCEPT !.latency_min = 1, !.latency_max = 4, !.error_rate = 0,
                !.memory_leak_active = FALSE, !.cpu_stress_active = FALSE,
                !.memory_store = << >>]

-----------------------------------------------------------------------------
(* Requests *)

\* a request id that has not been used.  age is the time since the client
\* sent the request (its round trip once done), left the rest of the wait
\* the handler is in, target the wait it chose; seen_leak and seen_cpu are
\* the flags as they were when the handler started.
IdleRequest ==
    [ kind |-> "none", status |-> "idle", age |-> 0, left |-> 0, target |-> 0,
      mode |-> "none", seen_leak |-> FALSE, seen_cpu |-> FALSE,
      code |-> 0, leaked |-> FALSE ]

InFlight(r) == requests[r].status \in {"pending", "sleeping", "busy"}

\* random.uniform(a, b): the values the model draws
Uniform(a, b) == IF a <= b THEN {a, b} ELSE {b, a}

\* random.random(): the values the model draws, in percent
RandomDraws == {0, 50, 99}

\* a target duration taken from latency_max
TargetDurationFromMax(cfg) == cfg.latency_max * 2

\* target_duration = SIMULATION_CONFIG["latency_min"] * 2
TargetDuration(cfg) == cfg.latency_min * 2

\* the event loop runs one handler at a time: a handler in its busy loop
\* never yields, so nothing else is scheduled until it returns
LoopFree == running = NoReq

\* a request the loop has to serve before it may go to sleep
Ready(r) ==
    \/ requests[r].status = "pending"
    \/ requests[r].status = "sleeping" /\ requests[r].left = 0

\* half a second goes by: every request in flight is half a second older
\* and every wait half a second shorter
Elapse(reqs) ==
    [r \in Req |->
       IF reqs[r].status \in {"pending", "sleeping", "busy"}
       THEN [reqs[r] EXCEPT
               !.age = @ + 1,
               !.left = IF reqs[r].status = "pending" \/ @ = 0 THEN @ ELSE @ - 1]
       ELSE reqs[r]]

CanElapse == \A r \in Req : InFlight(r) => requests[r].age < MaxAge

-----------------------------------------------------------------------------
(* Clients *)

\* a client sends a chat or an analyze request; the socket accepts it
\* whatever the loop is doing
Submit(r, k) ==
    /\ requests[r].status = "idle"
    /\ \A q \in Req : q < r => requests[q].status # "idle"
    /\ requests' = [requests EXCEPT ![r] =
           [@ EXCEPT !.kind = k, !.status = "pending"]]
    /\ UNCHANGED <<SIMULATION_CONFIG, running>>
    /\ UNCHANGED notChaos

-----------------------------------------------------------------------------
(* chat_endpoint *)

\* up to the await: draw the delay and go to sleep
chat_endpoint_start(r) ==
    /\ LoopFree
    /\ requests[r].status = "pending"
    /\ requests[r].kind = "chat"
    /\ \E delay \in Uniform(SIMULATION_CONFIG.latency_min,
                            SIMULATION_CONFIG.latency_max) :
         requests' = [requests EXCEPT ![r] =
           [@ EXCEPT !.status = "sleeping", !.left = delay, !.target = delay,
                     !.seen_leak = SIMULATION_CONFIG.memory_leak_active]]
    /\ UNCHANGED <<SIMULATION_CONFIG, running>>
    /\ UNCHANGED notChaos

\* a leak step that appends two blocks
LeakStepTwice(cfg) ==
    IF cfg.memory_leak_active
    THEN [cfg EXCEPT !.memory_store = Append(Append(@, LeakBlock), LeakBlock)]
    ELSE cfg

\* a leak step that flushes the store once it holds a block
LeakStepFlushes(cfg) ==
    IF cfg.memory_leak_active
    THEN [cfg EXCEPT !.memory_store =
            IF Len(@) >= 1 THEN << >> ELSE Append(@, LeakBlock)]
    ELSE cfg

\* a leak step that does not look at the flag
LeakStepAlways(cfg) ==
    [cfg EXCEPT !.memory_store = Append(@, LeakBlock)]

\* if memory_leak_active: memory_store.append("x" * 1024 * 1024)
LeakStep(cfg) ==
    IF cfg.memory_leak_active
    THEN [cfg EXCEPT !.memory_store = Append(@, LeakBlock)]
    ELSE cfg

\* a chat handler that takes its leak step before the error decision
ChatLeaksBeforeError(cfg, u) ==
    [ code   |-> IF u < cfg.error_rate THEN 503 ELSE 200,
      leaked |-> cfg.memory_leak_active,
      config |-> LeakStep(cfg) ]

\* chat_endpoint after its await, for the draw u of random.random(): the
\* status code, whether the leak step was taken, and the state it leaves
ChatAfterAwait(cfg, u) ==
    IF u < cfg.error_rate
    THEN [code |-> 503, leaked |-> FALSE, config |-> cfg]
    ELSE [code |-> 200, leaked |-> cfg.memory_leak_active,
          config |-> LeakStep(cfg)]

\* after the await: the error draw, the leak, the response
chat_endpoint_resume(r) ==
    /\ LoopFree
    /\ requests[r].status = "sleeping"
    /\ requests[r].kind = "chat"
    /\ requests[r].left = 0
    /\ \E u \in RandomDraws :
         LET out == ChatAfterAwait(SIMULATION_CONFIG, u) IN
           /\ requests' = [requests EXCEPT ![r] =
                  [@ EXCEPT !.status = "done", !.code = out.code,
                            !.leaked = out.leaked]]
           /\ SIMULATION_CONFIG' = out.config
    /\ UNCHANGED running
    /\ UNCHANGED notChaos

-----------------------------------------------------------------------------
(* analyze_endpoint *)

\* an analyze handler that awaits in both modes
AnalyzeEnterNeverBlocks(cfg) ==
    [ status |-> "sleeping",
      mode   |-> IF cfg.cpu_stress_active THEN "CPU_BOUND" ELSE "IO_BOUND",
      target |-> TargetDuration(cfg) ]

\* an analyze handler that spins in both modes
AnalyzeEnterAlwaysBlocks(cfg) ==
    [ status |-> "busy",
      mode   |-> IF cfg.cpu_stress_active THEN "CPU_BOUND" ELSE "IO_BOUND",
      target |-> TargetDuration(cfg) ]

\* the branch of analyze_endpoint: the busy loop until end_time, or the await
AnalyzeEnter(cfg) ==
    IF cfg.cpu_stress_active
    THEN [ status |-> "busy", mode |-> "CPU_BOUND",
           target |-> TargetDuration(cfg) ]
    ELSE [ status |-> "sleeping", mode |-> "IO_BOUND",
           target |-> TargetDuration(cfg) ]

\* the handler starts: it reads the state and enters one of its two waits
analyze_endpoint_start(r) ==
    /\ LoopFree
    /\ requests[r].status = "pending"
    /\ requests[r].kind = "analyze"
    /\ LET e == AnalyzeEnter(SIMULATION_CONFIG) IN
         /\ requests' = [requests EXCEPT ![r] =
              [@ EXCEPT !.status = e.status, !.mode = e.mode,
                        !.left = e.target, !.target = e.target,
                        !.seen_cpu = SIMULATION_CONFIG.cpu_stress_active]]
         /\ running' = IF e.status = "busy" THEN r ELSE NoReq
    /\ UNCHANGED SIMULATION_CONFIG
    /\ UNCHANGED notChaos

\* one pass of `while time.time() < end_time`: time goes by inside the
\* handler, and at end_time the handler returns
analyze_endpoint_spin(r) ==
    /\ running = r
    /\ requests[r].status = "busy"
    /\ IF requests[r].left > 0
       THEN /\ CanElapse
            /\ requests' = Elapse(requests)
            /\ UNCHANGED running
       ELSE /\ requests' = [requests EXCEPT ![r] =
                  [@ EXCEPT !.status = "done", !.code = 200]]
            /\ running' = NoReq
    /\ UNCHANGED SIMULATION_CONFIG
    /\ UNCHANGED notChaos

\* after `await asyncio.sleep(target_duration)`
analyze_endpoint_resume(r) ==
    /\ LoopFree
    /\ requests[r].status = "sleeping"
    /\ requests[r].kind = "analyze"
    /\ requests[r].left = 0
    /\ requests' = [requests EXCEPT ![r] =
           [@ EXCEPT !.status = "done", !.code = 200]]
    /\ UNCHANGED <<SIMULATION_CONFIG, running>>
    /\ UNCHANGED notChaos

-----------------------------------------------------------------------------
(* health and the chaos control panel: handlers without an await *)

\* return {"status": "healthy", "config": SIMULATION_CONFIG}
HealthResponse(cfg) == [status |-> "healthy", config |-> cfg]

\* a health probe that empties the leak buffer it reports
HealthCheckFlushes ==
    /\ LoopFree
    /\ SIMULATION_CONFIG' = [SIMULATION_CONFIG EXCEPT !.memory_store = << >>]
    /\ UNCHANGED <<requests, running>>
    /\ UNCHANGED notChaos

health_check ==
    /\ LoopFree
    /\ UNCHANGED <<SIMULATION_CONFIG, requests, running>>
    /\ UNCHANGED notChaos

trigger_latency_spike ==
    /\ LoopFree
    /\ SIMULATION_CONFIG' = ApplyLatencySpike(SIMULATION_CONFIG)
    /\ UNCHANGED <<requests, running>>
    /\ UNCHANGED notChaos

trigger_memory_leak ==
    /\ LoopFree
    /\ SIMULATION_CONFIG' = ApplyMemoryLeak(SIMULATION_CONFIG)
    /\ UNCHANGED <<requests, running>>
    /\ UNCHANGED notChaos

trigger_cpu_spike ==
    /\ LoopFree
    /\ SIMULATION_CONFIG' = ApplyCpuSpike(SIMULATION_CONFIG)
    /\ UNCHANGED <<requests, running>>
    /\ UNCHANGED notChaos

reset_simulation ==
    /\ LoopFree
    /\ SIMULATION_CONFIG' = ApplyReset(SIMULATION_CONFIG)
    /\ UNCHANGED <<requests, running>>
    /\ UNCHANGED notChaos

\* the admin routes by name
AdminOps == {"latency_spike", "memory_leak", "cpu_spike", "reset"}

\* what the handler of an admin route does to the state
Apply(op, cfg) ==
    CASE op = "latency_spike" -> ApplyLatencySpike(cfg)
      [] op = "memory_leak"   -> ApplyMemoryLeak(cfg)
      [] op = "cpu_spike"     -> ApplyCpuSpike(cfg)
      [] op = "reset"         -> ApplyReset(cfg)

-----------------------------------------------------------------------------
(* Time *)

\* the loop has nothing ready and sleeps in its selector: time goes by
Tick ==
    /\ LoopFree
    /\ \A r \in Req : ~Ready(r)
    /\ \E r \in Req : InFlight(r)
    /\ CanElapse
    /\ requests' = Elapse(requests)
    /\ UNCHANGED <<SIMULATION_CONFIG, running>>
    /\ UNCHANGED notChaos

-----------------------------------------------------------------------------
(* The chaos server *)

InitChaos ==
    /\ SIMULATION_CONFIG = InitialConfig
    /\ requests = [r \in Req |-> IdleRequest]
    /\ running = NoReq

\* the settings of error_rate the model tries, in percent
ErrorRates == {0, 50, 100}

\* the server started with some error_rate in SIMULATION_CONFIG
InitChaosErr ==
    /\ \E rate \in ErrorRates :
         SIMULATION_CONFIG = [InitialConfig EXCEPT !.error_rate = rate]
    /\ requests = [r \in Req |-> IdleRequest]
    /\ running = NoReq

\* chat traffic and the memory-leak switch
NextChat ==
    \/ \E r \in Req : Submit(r, "chat")
    \/ \E r \in Req : chat_endpoint_start(r)
    \/ \E r \in Req : chat_endpoint_resume(r)
    \/ trigger_memory_leak
    \/ Tick

\* chat traffic, the health probe and the four admin routes
NextAdmin ==
    \/ \E r \in Req : Submit(r, "chat")
    \/ \E r \in Req : chat_endpoint_start(r)
    \/ \E r \in Req : chat_endpoint_resume(r)
    \/ health_check
    \/ trigger_latency_spike
    \/ trigger_memory_leak
    \/ trigger_cpu_spike
    \/ reset_simulation
    \/ Tick

NextChaos ==
    \/ \E r \in Req, k \in {"chat", "analyze"} : Submit(r, k)
    \/ \E r \in Req : chat_endpoint_start(r)
    \/ \E r \in Req : chat_endpoint_resume(r)
    \/ \E r \in Req : analyze_endpoint_start(r)
    \/ \E r \in Req : analyze_endpoint_spin(r)
    \/ \E r \in Req : analyze_endpoint_resume(r)
    \/ health_check
    \/ trigger_latency_spike
    \/ trigger_memory_leak
    \/ trigger_cpu_spike
    \/ reset_simulation
    \/ Tick

-----------------------------------------------------------------------------
(* StagedRampUp: the load shape of simulated-scale/locust_load_test.py *)

\* the class attribute `stages`; "duration" is the second at which the
\* stage ends, counted from the start of the test
stages ==
    << [duration |-> 30,  users |-> 10,  spawn_rate |-> 5],
       [duration |-> 60,  users |-> 50,  spawn_rate |-> 10],
       [duration |-> 90,  users |-> 100, spawn_rate |-> 20],
       [duration |-> 120, users |-> 10,  spawn_rate |-> 5] >>

\* Python's None
None == "None"

\* a comparison that lets a stage run through its last second
StageOpenInclusive(t, stage) == t <= stage.duration

\* `if run_time < stage["duration"]`
StageOpen(t, stage) == t < stage.duration

\* a scan that keeps looking after a match and so ends on the last one
LastStageFrom(t, i) ==
    LET open == {k \in i..Len(stages) : StageOpen(t, stages[k])} IN
    IF open = {} THEN 0 ELSE CHOOSE k \in open : \A j \in open : j <= k

\* `for stage in self.stages`, from the i-th stage on: the index of the
\* stage the loop returns at, or 0 when it falls through
RECURSIVE StageFrom(_, _)
StageFrom(t, i) ==
    IF i > Len(stages) THEN 0
    ELSE IF StageOpen(t, stages[i]) THEN i
    ELSE StageFrom(t, i + 1)

\* a tick that holds the last stage for ever
TickOfNeverStops(k) ==
    IF k = 0
    THEN <<stages[Len(stages)].users, stages[Len(stages)].spawn_rate>>
    ELSE <<stages[k].users, stages[k].spawn_rate>>

\* what tick returns when its loop stops at stage k
TickOf(k) ==
    IF k = 0 THEN None ELSE <<stages[k].users, stages[k].spawn_rate>>

\* the load test has not called tick yet
NoTick == [at |-> -1, stage |-> 0, value |-> "NoTick"]

InitShape ==
    /\ run_time = 0
    /\ last_tick = NoTick

\* a second of the test goes by
RunTimeElapses ==
    /\ run_time < MaxRunTime
    /\ run_time' = run_time + 1
    /\ UNCHANGED last_tick
    /\ UNCHANGED notShape

\* StagedRampUp.tick
tick ==
    /\ LET k == StageFrom(run_time, 1) IN
         last_tick' = [at |-> run_time, stage |-> k, value |-> TickOf(k)]
    /\ UNCHANGED run_time
    /\ UNCHANGED notShape

NextShape ==
    \/ RunTimeElapses
    \/ tick

-----------------------------------------------------------------------------
(* generate_streaming_response: the streaming generator of the mock LLM *)
(* server                                                               *)

\* mock_response.split()
words ==
    << "I", "understand", "your", "request.",
       "Let", "me", "help", "you", "with", "that.",
       "Based", "on", "the", "information", "provided,", "here", "is", "my",
       "response.",
       "Please", "let", "me", "know", "if", "you", "need", "any",
       "clarification." >>

\* the slice seq[:n] of Python: the first n items, or all but the last -n
\* when n is negative
SliceToOneMore(seq, n) ==
    LET m == IF n + 1 >= 0
             THEN (IF n + 1 <= Len(seq) THEN n + 1 ELSE Len(seq))
             ELSE (IF Len(seq) + n + 1 >= 0 THEN Len(seq) + n + 1 ELSE 0)
    IN  SubSeq(seq, 1, m)

SliceTo(seq, n) ==
    LET m == IF n >= 0
             THEN (IF n <= Len(seq) THEN n ELSE Len(seq))
             ELSE (IF Len(seq) + n >= 0 THEN Len(seq) + n ELSE 0)
    IN  SubSeq(seq, 1, m)

\* the sentinel line `data: [DONE]`
Done == [sentinel |-> "[DONE]"]

\* the chunk of the i-th pass of the loop (i counts from 0, as enumerate)
Chunk(i, word) ==
    [ text                 |-> word \o " ",
      finishReason         |-> IF i < Len(words) - 1 THEN None ELSE "STOP",
      index                |-> 0,
      promptTokenCount     |-> 10,
      candidatesTokenCount |-> i + 1,
      totalTokenCount      |-> 10 + i + 1 ]

\* int(os.environ.get("MOCK_TOKEN_COUNT", "20"))
DefaultTokenCount == 20

\* float(os.environ.get("MOCK_MIN_LATENCY", "0.5")), in twentieths of a second
DefaultMinLatency == 10

\* float(os.environ.get("MOCK_MAX_LATENCY", "2.0")), in twentieths of a second
DefaultMaxLatency == 40

\* float(os.environ.get("MOCK_TOKEN_DELAY", "0.05")), in twentieths of a second
TOKEN_DELAY == 1

\* the settings of MOCK_MIN_LATENCY and MOCK_MAX_LATENCY the model tries
LatencySettings == {0, DefaultMinLatency, DefaultMaxLatency}

\* a thinking time drawn from 0 to the upper bound
ThinkingTimeFromZero(lo, hi) == {0, hi \div 2, hi}

\* random.uniform(MIN_LATENCY, MAX_LATENCY): the values the model draws,
\* the two ends and the middle
ThinkingTime(lo, hi) == {lo, (lo + hi) \div 2, hi}

\* words[:TOKEN_COUNT], the sequence the loop runs over
Tokens == SliceTo(words, TOKEN_COUNT)

InitStream ==
    /\ TOKEN_COUNT \in (0 - MaxNegTokenCount)..MaxTokenCount
    /\ MIN_LATENCY \in LatencySettings
    /\ MAX_LATENCY \in LatencySettings
    /\ gen_pc = "thinking"
    /\ gen_i = 0
    /\ stream = << >>
    /\ sleeps = << >>

\* thinking_time is drawn and `await asyncio.sleep(thinking_time)` is over
gen_think ==
    /\ gen_pc = "thinking"
    /\ \E thinking_time \in ThinkingTime(MIN_LATENCY, MAX_LATENCY) :
         sleeps' = Append(sleeps, [after |-> Len(stream), secs |-> thinking_time])
    /\ gen_pc' = "loop"
    /\ UNCHANGED <<TOKEN_COUNT, MIN_LATENCY, MAX_LATENCY, gen_i, stream>>
    /\ UNCHANGED notStream

\* one pass of the loop up to its yield
gen_yield_chunk ==
    /\ gen_pc = "loop"
    /\ gen_i < Len(Tokens)
    /\ stream' = Append(stream, Chunk(gen_i, Tokens[gen_i + 1]))
    /\ gen_pc' = "token_delay"
    /\ UNCHANGED <<TOKEN_COUNT, MIN_LATENCY, MAX_LATENCY, gen_i, sleeps>>
    /\ UNCHANGED notStream

\* `await asyncio.sleep(TOKEN_DELAY)` is over: the next pass
gen_token_delay ==
    /\ gen_pc = "token_delay"
    /\ sleeps' = Append(sleeps, [after |-> Len(stream), secs |-> TOKEN_DELAY])
    /\ gen_i' = gen_i + 1
    /\ gen_pc' = "loop"
    /\ UNCHANGED <<TOKEN_COUNT, MIN_LATENCY, MAX_LATENCY, stream>>
    /\ UNCHANGED notStream

\* the loop is exhausted: the terminator, and the generator returns
gen_yield_done ==
    /\ gen_pc = "loop"
    /\ gen_i >= Len(Tokens)
    /\ stream' = Append(stream, Done)
    /\ gen_pc' = "done"
    /\ UNCHANGED <<TOKEN_COUNT, MIN_LATENCY, MAX_LATENCY, gen_i, sleeps>>
    /\ UNCHANGED notStream

NextStream ==
    \/ gen_think
    \/ gen_yield_chunk
    \/ gen_token_delay
    \/ gen_yield_done

-----------------------------------------------------------------------------
(* ParlantUser: one virtual user of the Parlant load test *)

\* int(os.environ.get("POLL_TIMEOUT", "60"))
DefaultPollTimeout == 60

\* int(os.environ.get("POLL_WAIT_FOR_DATA", "10"))
POLL_WAIT_FOR_DATA == 10

\* the status codes the Parlant server answers with in the model
ParlantStatuses == {200, 500}

\* how long one HTTP call takes, in seconds: every round trip takes time;
\* the model tries the shortest and the longest
CallTimes == {1, MaxCallTime}

\* Python truthiness of an identifier: None and "" are false
Truthy(x) == x \notin {None, ""}

\* e.get(key, default)
Get(e, key, default) == IF key \in DOMAIN e THEN e[key] ELSE default

\* who an event is from and what it is: the agent's message, something
\* else of the agent's, and the customer's message
EventTypes ==
    { [source |-> "ai_agent", kind |-> "message"],
      [source |-> "ai_agent", kind |-> "status"],
      [source |-> "customer", kind |-> "message"] }

\* the events a poll may return: with the smallest offset, with the
\* largest, and without an offset
Events ==
    { [offset |-> o, source |-> t.source, kind |-> t.kind] :
          o \in {0, MaxOffset}, t \in EventTypes }
      \cup EventTypes

\* the bodies of a 200 answer to a poll: no event, one event, two events
EventLists ==
    { << >> } \cup { << e >> : e \in Events }
              \cup { << e1, e2 >> : e1 \in Events, e2 \in Events }

\* the answers to GET /sessions/{id}/events
PollResponses ==
    [status : ParlantStatuses \ {200}] \cup [status : {200}, events : EventLists]

\* the answers to GET /agents
AgentResponses ==
    [status : ParlantStatuses \ {200}]
      \cup [status : {200}, agents : {<< >>, << [id |-> "agent-1"] >>}]

\* the answers to POST /sessions
SessionResponses ==
    [status : ParlantStatuses \ {200}]
      \cup [status : {200},
            data : {[id |-> "sess-1"], [id |-> ""], [other |-> 0]}]

\* the largest of a non-empty set of integers
SetMax(S) == CHOOSE x \in S : \A y \in S : y <= x

\* self, as the methods read and write it
Self == [agent_id |-> agent_id, session_id |-> session_id,
         last_offset |-> last_offset]

\* _discover_agent: the first agent of a 200 answer, if there is one
DiscoverAgent(self, response) ==
    IF response.status = 200 /\ response.agents # << >>
    THEN [self EXCEPT !.agent_id = response.agents[1].id]
    ELSE self

\* _create_session: nothing without an agent; a 200 answer sets the
\* session id and puts the offset back to 0
CreateSession(self, response) ==
    IF ~Truthy(self.agent_id) THEN self
    ELSE IF response.status = 200
         THEN [self EXCEPT !.session_id = Get(response.data, "id", None),
                           !.last_offset = 0]
         ELSE self

\* a deadline test that still polls at the deadline itself
BeforeDeadlineInclusive(since_start, timeout) == since_start <= timeout

\* time.time() < deadline, with deadline = start_time + POLL_TIMEOUT
BeforeDeadline(since_start, timeout) == since_start < timeout

\* any(e.get("source") == "ai_agent" and e.get("kind") == "message" ...)
agent_replied(event_list) ==
    \E k \in 1..Len(event_list) :
        /\ Get(event_list[k], "source", None) = "ai_agent"
        /\ Get(event_list[k], "kind", None) = "message"

\* a poll body that takes an empty answer for a failed poll
PollBodyEmptyFails(response, offset) ==
    IF response.status # 200 \/ response.events = << >>
    THEN [mark |-> "failure", next |-> "return_false", last_offset |-> offset]
    ELSE [mark |-> "success",
          next |-> IF agent_replied(response.events)
                   THEN "return_true" ELSE "continue",
          last_offset |->
              SetMax({Get(response.events[k], "offset", 0) :
                          k \in 1..Len(response.events)}) + 1]

\* a poll body that never lets last_offset go back
PollBodyKeepsLargest(response, offset) ==
    IF response.status # 200
    THEN [mark |-> "failure", next |-> "return_false", last_offset |-> offset]
    ELSE IF response.events = << >>
    THEN [mark |-> "success", next |-> "continue", last_offset |-> offset]
    ELSE [mark |-> "success",
          next |-> IF agent_replied(response.events)
                   THEN "return_true" ELSE "continue",
          last_offset |->
              SetMax({offset} \cup
                     {Get(response.events[k], "offset", 0) + 1 :
                          k \in 1..Len(response.events)})]

\* the body of the poll loop for one answer: what the request is marked
\* as, what the loop does next, and the new last_offset
PollBody(response, offset) ==
    IF response.status # 200
    THEN [mark |-> "failure", next |-> "return_false", last_offset |-> offset]
    ELSE IF response.events = << >>
    THEN [mark |-> "success", next |-> "continue", last_offset |-> offset]
    ELSE [mark |-> "success",
          next |-> IF agent_replied(response.events)
                   THEN "return_true" ELSE "continue",
          last_offset |->
              SetMax({Get(response.events[k], "offset", 0) :
                          k \in 1..Len(response.events)}) + 1]

\* a turn clock that is started when the send has returned
ElapsedFromAfterSend(d) == 0

\* time.time() - start_time when the send, which took d, has returned:
\* start_time is taken before the send
ElapsedAfterSend(d) == d

\* (time.time() - start_time) * 1000
TotalDurationMs(since_start) == since_start * 1000

\* no turn has been started.  owed: a message of an earlier turn has had no
\* reply yet; late: the agent message this turn's loop ended on is the
\* server's reply to such a message (the events carry nothing that tells)
NoTurn == [sent |-> FALSE, metric |-> None, since_send |-> 0, max_call |-> 0,
           empties |-> 0, saw_agent |-> FALSE, poll_failed |-> FALSE,
           fired |-> 0, owed |-> FALSE, late |-> FALSE]

\* when a turn is over: some message sent so far has had no reply
Unanswered(t) ==
    \/ t.owed /\ ~t.late
    \/ t.sent /\ (~t.saw_agent \/ t.late)

\* the offsets the events of a poll answer carry, -1 for an event without
Offsets(event_list) ==
    { IF "offset" \in DOMAIN event_list[k] THEN event_list[k].offset ELSE -1 :
          k \in 1..Len(event_list) }

\* no poll request has been made in this turn
NoPoll == [at |-> -1, min_offset |-> -1, wait_for_data |-> -1,
           answer |-> "none", offsets |-> {}, mark |-> "none"]

\* no turn measurement has been fired in this turn
NoMeasurement == [request_type |-> None, name |-> None,
                  response_time |-> -1, failed |-> FALSE]

\* the user before on_start; POLL_TIMEOUT is not set
IdleParlant ==
    /\ POLL_TIMEOUT = DefaultPollTimeout
    /\ agent_id = None
    /\ session_id = None
    /\ last_offset = 0
    /\ user_pc = "new"
    /\ elapsed = 0
    /\ poll_result = FALSE
    /\ turn = NoTurn
    /\ last_poll = NoPoll
    /\ measurement = NoMeasurement

\* the user before on_start, for each POLL_TIMEOUT
InitParlant ==
    /\ POLL_TIMEOUT \in 0..MaxPollTimeout
    /\ agent_id = None
    /\ session_id = None
    /\ last_offset = 0
    /\ user_pc = "new"
    /\ elapsed = 0
    /\ poll_result = FALSE
    /\ turn = NoTurn
    /\ last_poll = NoPoll
    /\ measurement = NoMeasurement

\* on_start: the agent id of the environment or of /agents, then a session
on_start ==
    /\ user_pc = "new"
    /\ \E env \in {None, "agent-env"}, found \in AgentResponses,
          created \in SessionResponses :
         LET s0 == [agent_id |-> env, session_id |-> None, last_offset |-> 0]
             s1 == IF ~Truthy(s0.agent_id) THEN DiscoverAgent(s0, found) ELSE s0
             s2 == CreateSession(s1, created)
         IN  /\ agent_id' = s2.agent_id
             /\ session_id' = s2.session_id
             /\ last_offset' = s2.last_offset
    /\ user_pc' = "idle"
    /\ UNCHANGED <<POLL_TIMEOUT, elapsed, poll_result, turn, last_poll, measurement>>
    /\ UNCHANGED notParlant

\* a task that asks for a session whether it has one or not
EnsureSessionAlwaysCreates(self, created) == CreateSession(self, created)

\* if not self.session_id: self._create_session()
EnsureSession(self, created) ==
    IF ~Truthy(self.session_id) THEN CreateSession(self, created) ELSE self

\* a send whose failure is not looked at
AfterSendAlwaysPolls(send_status) == "polling"

\* where _send_and_wait goes after the send: it returns on a status other
\* than 200, else it polls
AfterSend(send_status) == IF send_status # 200 THEN "idle" ELSE "polling"

\* a task: make sure there is a session, then _send_and_wait up to the
\* point where the message has been sent
Task(metric_name) ==
    /\ \E created \in SessionResponses, send_status \in ParlantStatuses,
          d \in CallTimes :
         LET s1 == EnsureSession(Self, created)
         IN  /\ agent_id' = s1.agent_id
             /\ session_id' = s1.session_id
             /\ last_offset' = s1.last_offset
             /\ IF ~Truthy(s1.session_id)
                THEN /\ turn' = NoTurn
                     /\ UNCHANGED <<user_pc, elapsed>>
                ELSE /\ turn' = [NoTurn EXCEPT !.sent = (send_status = 200),
                                   !.metric = metric_name,
                                   !.since_send = d, !.max_call = d,
                                   !.owed = Unanswered(turn)]
                     /\ elapsed' = ElapsedAfterSend(d)
                     /\ user_pc' = AfterSend(send_status)
    /\ last_poll' = NoPoll
    /\ measurement' = NoMeasurement
    /\ UNCHANGED <<POLL_TIMEOUT, poll_result>>
    /\ UNCHANGED notParlant

\* @task(3)
quick_chat ==
    /\ user_pc = "idle"
    /\ Task("Quick_Chat")

\* @task(1)
complex_query ==
    /\ user_pc = "idle"
    /\ Task("Complex_Query")

\* _poll_for_response, one round of its loop: the deadline has not come,
\* the poll is made and its answer dealt with
poll_for_response_round ==
    /\ user_pc = "polling"
    /\ BeforeDeadline(elapsed, POLL_TIMEOUT)
    /\ \E response \in PollResponses, d \in CallTimes, late \in BOOLEAN :
         LET out == PollBody(response, last_offset) IN
           /\ late => turn.owed /\ out.next = "return_true"
           /\ last_offset' = out.last_offset
           /\ last_poll' =
                [at |-> elapsed, min_offset |-> last_offset,
                 wait_for_data |-> POLL_WAIT_FOR_DATA,
                 answer |-> IF response.status # 200 THEN "error"
                            ELSE IF response.events = << >> THEN "empty"
                            ELSE "events",
                 offsets |-> IF response.status = 200
                             THEN Offsets(response.events) ELSE {},
                 mark |-> out.mark]
           /\ elapsed' = elapsed + d
           /\ turn' = [turn EXCEPT
                 !.since_send = @ + d,
                 !.max_call = IF d > @ THEN d ELSE @,
                 !.empties = IF response.status = 200 /\ response.events = << >>
                             THEN @ + 1 ELSE @,
                 !.poll_failed = @ \/ response.status # 200,
                 !.late = late,
                 !.saw_agent =
                     \/ @
                     \/ /\ response.status = 200
                        /\ \E k \in 1..Len(response.events) :
                             /\ "source" \in DOMAIN response.events[k]
                             /\ response.events[k].source = "ai_agent"
                             /\ "kind" \in DOMAIN response.events[k]
                             /\ response.events[k].kind = "message"]
           /\ IF out.next = "continue"
              THEN UNCHANGED <<user_pc, poll_result>>
              ELSE /\ user_pc' = "polled"
                   /\ poll_result' = (out.next = "return_true")
    /\ UNCHANGED <<POLL_TIMEOUT, agent_id, session_id, measurement>>
    /\ UNCHANGED notParlant

\* _poll_for_response: the deadline has come, the loop ends, return False
poll_for_response_deadline ==
    /\ user_pc = "polling"
    /\ ~BeforeDeadline(elapsed, POLL_TIMEOUT)
    /\ user_pc' = "polled"
    /\ poll_result' = FALSE
    /\ UNCHANGED <<POLL_TIMEOUT, agent_id, session_id, last_offset, elapsed,
                   turn, last_poll, measurement>>
    /\ UNCHANGED notParlant

\* _send_and_wait after the poll loop: the turn measurement is fired
send_and_wait_fire ==
    /\ user_pc = "polled"
    /\ measurement' =
         [request_type |-> "Conversation",
          name |-> "Full_Turn_" \o turn.metric,
          response_time |-> TotalDurationMs(elapsed),
          failed |-> ~poll_result]
    /\ turn' = [turn EXCEPT !.fired = @ + 1]
    /\ user_pc' = "idle"
    /\ UNCHANGED <<POLL_TIMEOUT, agent_id, session_id, last_offset, elapsed,
                   poll_result, last_poll>>
    /\ UNCHANGED notParlant

NextParlant ==
    \/ on_start
    \/ quick_chat
    \/ complex_query
    \/ poll_for_response_round
    \/ poll_for_response_deadline
    \/ send_and_wait_fire

-----------------------------------------------------------------------------
(* AIUser: the tasks of the chaos load test *)

\* the SLA bound of the analyze task: elapsed_time > 2.0, in tenths of a second
AnalyzeSla == 20

\* the timeout of the health task: elapsed_time > 1.0, in tenths of a second
HealthTimeout == 10

\* the status codes the target answers with in the model
TaskStatuses == {200, 204, 404, 500, 503, 504}

\* the round trips the model tries, in tenths of a second
RoundTrips == 0..MaxElapsed

\* the status codes FastHttpSession takes for a good answer
ValidResponseCodes ==
    {200, 201, 202, 203, 204, 205, 206, 207, 208, 226, 301, 302, 303, 304, 307}

Success == [result |-> "success", message |-> None]
Failure(message) == [result |-> "failure", message |-> message]

\* catch_response=True and the block marks nothing: the request is
\* reported by its status code
DefaultReport(status) ==
    IF status \in ValidResponseCodes
    THEN Success
    ELSE Failure("BadStatusCode " \o ToString(status))

\* what is reported when the `with` block is left: the last mark made in
\* the block, or the default when it made none
Report(marks, status) ==
    IF marks # << >> THEN marks[Len(marks)] ELSE DefaultReport(status)

\* a chat task for which every 2xx answer is a success
ChatMarksAny2xx(status) ==
    IF status >= 200 /\ status < 300 THEN << Success >>
    ELSE IF status = 503 THEN << Failure("503: Upstream Service Unavailable") >>
    ELSE IF status = 504 THEN << Failure("504: Gateway Timeout") >>
    ELSE << Failure("Error " \o ToString(status)) >>

\* the marks of chat_interaction
ChatMarks(status) ==
    IF status = 200 THEN << Success >>
    ELSE IF status = 503 THEN << Failure("503: Upstream Service Unavailable") >>
    ELSE IF status = 504 THEN << Failure("504: Gateway Timeout") >>
    ELSE << Failure("Error " \o ToString(status)) >>

\* the marks of heavy_analysis_request
AnalyzeMarks(status, elapsed_time) ==
    IF elapsed_time > AnalyzeSla
    THEN << Failure("SLA Violation: > 2s Response") >>
    ELSE << >>

\* a health task that looks at the status first
HealthMarksStatusFirst(status, elapsed_time) ==
    IF status # 200
    THEN << Failure("Health Check Failed: Non-200 Status") >>
    ELSE IF elapsed_time > HealthTimeout
    THEN << Failure("Health Check Timeout: > 1s (Pod would be restarted)") >>
    ELSE << Success >>

\* the marks of AIUser.health_check
HealthMarks(status, elapsed_time) ==
    IF elapsed_time > HealthTimeout
    THEN << Failure("Health Check Timeout: > 1s (Pod would be restarted)") >>
    ELSE IF status # 200
    THEN << Failure("Health Check Failed: Non-200 Status") >>
    ELSE << Success >>

\* no task has run
NoReport == [result |-> "none", message |-> None]

IdleTasks ==
    /\ task = None
    /\ task_status = 0
    /\ task_elapsed = 0
    /\ task_marks = << >>
    /\ task_report = NoReport

\* one run of a task: the request is made, the answer comes with some
\* status after some round trip, the block marks it, the block is left
RunTask(name, status, elapsed_time, marks) ==
    /\ task' = name
    /\ task_status' = status
    /\ task_elapsed' = elapsed_time
    /\ task_marks' = marks
    /\ task_report' = Report(marks, status)

\* @task(3) chat_interaction
chat_interaction ==
    /\ \E status \in TaskStatuses, elapsed_time \in RoundTrips :
         RunTask("chat_interaction", status, elapsed_time, ChatMarks(status))
    /\ UNCHANGED notTasks

\* @task(1) heavy_analysis_request
heavy_analysis_request ==
    /\ \E status \in TaskStatuses, elapsed_time \in RoundTrips :
         RunTask("heavy_analysis_request", status, elapsed_time,
                 AnalyzeMarks(status, elapsed_time))
    /\ UNCHANGED notTasks

\* @task(1) health_check of AIUser
AIUser_health_check ==
    /\ \E status \in TaskStatuses, elapsed_time \in RoundTrips :
         RunTask("health_check", status, elapsed_time,
                 HealthMarks(status, elapsed_time))
    /\ UNCHANGED notTasks

NextTasks ==
    \/ chat_interaction
    \/ heavy_analysis_request
    \/ AIUser_health_check

-----------------------------------------------------------------------------
(* The mock LLM server: JSON values and generate_mock_from_schema *)

\* JSON values as Python holds them: None, str, bool, int, float, list and
\* dict (the pairs of a dict in insertion order)
JNull == [null |-> TRUE]
JStr(s) == [str |-> s]
JBool(b) == [bool |-> b]
JInt(n) == [int |-> n]
JFloat(whole) == [float |-> whole]
JList(items) == [list |-> items]
JDict(pairs) == [dict |-> pairs]

\* the empty dict {} where a schema is expected
EmptyDict == [empty |-> TRUE]

\* an exception leaves the handler: the framework answers 500
Raised(exception) == [raised |-> exception]
IsRaised(value) == "raised" \in DOMAIN value

\* str.upper() on the type names the model uses
Upper(s) ==
    CASE s = "object" -> "OBJECT"
      [] s = "string" -> "STRING"
      [] s = "array"  -> "ARRAY"
      [] OTHER        -> s

\* schemas without sub-schemas: every kind the function knows, one in lower
\* case, one it does not know, an enumeration, an empty enumeration, and
\* dicts without a type
LeafSchemas ==
    { EmptyDict,
      [type |-> "STRING"], [type |-> "string"],
      [type |-> "STRING", enum |-> << "red", "green" >>],
      [type |-> "STRING", enum |-> << >>],
      [type |-> "BOOLEAN"], [type |-> "INTEGER"], [type |-> "NUMBER"],
      [type |-> "NULL"],
      [type |-> "OBJECT"], [type |-> "ARRAY"],
      [description |-> "untyped"] }

\* the schemas of nesting depth at most d: arrays of a schema, objects
\* with one property, objects with two properties declared as b, then a
RECURSIVE Schemas(_)
Schemas(d) ==
    IF d = 0 THEN LeafSchemas
    ELSE LET sub == Schemas(d - 1) IN
         sub
         \cup { [type |-> "ARRAY", items |-> s] : s \in sub }
         \cup { [type |-> "object", properties |-> << <<"a", s>> >>] : s \in sub }
         \cup { [properties |-> << <<"b", s>>, <<"a", leaf>> >>] :
                    s \in sub, leaf \in LeafSchemas }

\* generate_mock_from_schema
RECURSIVE generate_mock_from_schema(_)
generate_mock_from_schema(schema) ==
    IF schema = EmptyDict THEN JDict(<< >>)
    ELSE LET schema_type == Upper(Get(schema, "type", "OBJECT")) IN
         CASE schema_type = "OBJECT" ->
                LET properties == Get(schema, "properties", << >>)
                    result == [i \in 1..Len(properties) |->
                                 << properties[i][1],
                                    generate_mock_from_schema(properties[i][2]) >>]
                IN  IF \E i \in DOMAIN result : IsRaised(result[i][2])
                    THEN Raised("IndexError")
                    ELSE JDict(result)
           [] schema_type = "ARRAY" ->
                LET item == generate_mock_from_schema(Get(schema, "items", EmptyDict)) IN
                IF IsRaised(item) THEN item ELSE JList(<< item >>)
           [] schema_type = "STRING" ->
                IF "enum" \in DOMAIN schema
                THEN IF schema.enum = << >> THEN Raised("IndexError")
                     ELSE JStr(schema.enum[1])
                ELSE JStr("mock_string")
           [] schema_type = "BOOLEAN" -> JBool(FALSE)
           [] schema_type = "INTEGER" -> JInt(1)
           [] schema_type = "NUMBER" -> JFloat(1)
           [] OTHER -> JNull

\* the function has not been called
NotCalled == [called |-> FALSE]

IdleSchema ==
    /\ schema_in = EmptyDict
    /\ schema_out = NotCalled

\* a call is about to be made, for each schema
InitSchema ==
    /\ schema_in \in Schemas(MaxDepth)
    /\ schema_out = NotCalled

\* the call is made and returns
call_generate_mock_from_schema ==
    /\ schema_out = NotCalled
    /\ schema_out' = generate_mock_from_schema(schema_in)
    /\ UNCHANGED schema_in
    /\ UNCHANGED notSchema

NextSchema == call_generate_mock_from_schema

-----------------------------------------------------------------------------
(* The mock LLM server: generate_content *)

\* A string the code searches for a substring is held as the sequence of its
\* words, and a keyword is one word: "x in s" is Contains(x, s), s + t is
\* s \o t, and "" is << >>
Contains(word, text) == \E i \in DOMAIN text : text[i] = word

\* str.lower(), word by word, on the words the model uses
LowerWord(word) ==
    CASE word = "IS_CONTINUOUS" -> "is_continuous"
      [] word = "Preamble"      -> "preamble"
      [] word = "Evaluate"      -> "evaluate"
      [] word = "Set"           -> "set"
      [] word = "Fill"          -> "fill"
      [] OTHER                  -> word
Lower(text) == [i \in DOMAIN text |-> LowerWord(text[i])]

\* a dict of schemas is the sequence of its (key, schema) pairs
Keys(pairs) == { pairs[i][1] : i \in DOMAIN pairs }
Lookup(pairs, key) == pairs[CHOOSE i \in DOMAIN pairs : pairs[i][1] = key][2]

\* the documents of the known shapes
CustomerDependentArgs ==
    JDict(<< <<"action", JStr("reply")>>,
             <<"is_customer_dependent", JBool(FALSE)>>,
             <<"customer_action", JNull>>,
             <<"agent_action", JNull>> >>)
GuidelineArgs ==
    JDict(<< <<"propositions",
               JList(<< JDict(<< <<"condition", JStr("always")>>,
                                 <<"action", JStr("reply with a greeting")>>,
                                 <<"rationale", JStr("Greeting is polite")>>,
                                 <<"is_continuous", JBool(TRUE)>> >>) >>)>> >>)
ContinuousArgs ==
    JDict(<< <<"rationale", JStr("Greeting is polite")>>,
             <<"is_continuous", JBool(TRUE)>> >>)
AgentIntentionArgs ==
    JDict(<< <<"condition", JStr("The user wants to schedule an appointment")>>,
             <<"is_agent_intention", JBool(TRUE)>> >>)
ToolRunningArgs ==
    JDict(<< <<"action", JStr("Use the tool")>>,
             <<"rationale", JStr("The user request requires a tool")>>,
             <<"is_tool_running_only", JBool(TRUE)>> >>)
ActionsArgs ==
    JDict(<< <<"actions",
               JList(<< JDict(<< <<"index", JStr("1")>>,
                                 <<"conditions", JList(<< JStr("Always") >>)>>,
                                 <<"action", JStr("Do something")>>,
                                 <<"needs_rewrite_rationale", JStr("No need")>>,
                                 <<"needs_rewrite", JBool(FALSE)>> >>) >>)>> >>)
StepActionArgs ==
    JDict(<< <<"step_action", JStr("Do something")>>,
             <<"step_action_completed", JStr("true")>> >>)
CoherenceArgs == JDict(<< <<"is_coherent", JBool(TRUE)>> >>)
FallbackArgs == JDict(<< <<"status", JStr("mock_response")>> >>)

\* the function declarations of every tool that has some, in order
RECURSIVE FunctionDeclarations(_)
FunctionDeclarations(tools) ==
    IF tools = << >> THEN << >>
    ELSE LET fds == Get(Head(tools), "functionDeclarations", << >>) IN
         fds \o FunctionDeclarations(Tail(tools))

\* the arguments for the generic log_data function, by the properties it
\* declares, directly or wrapped in one log_data property
LogDataArgs(props) ==
    LET is_wrapped == "log_data" \in Keys(props)
        check_props == IF is_wrapped
                       THEN Get(Lookup(props, "log_data"), "properties", << >>)
                       ELSE props
        Wrap(inner_args) == IF is_wrapped
                            THEN JDict(<< <<"log_data", inner_args>> >>)
                            ELSE inner_args
    IN  IF "is_continuous" \in Keys(check_props) THEN Wrap(ContinuousArgs)
        ELSE IF "is_customer_dependent" \in Keys(check_props)
             THEN Wrap(CustomerDependentArgs)
        ELSE IF "is_agent_intention" \in Keys(check_props)
             THEN Wrap(AgentIntentionArgs)
        ELSE IF "is_tool_running_only" \in Keys(check_props)
             THEN Wrap(ToolRunningArgs)
        ELSE IF "actions" \in Keys(check_props) THEN Wrap(ActionsArgs)
        ELSE IF "step_action" \in Keys(check_props) THEN Wrap(StepActionArgs)
        ELSE JDict(<< >>)

\* the arguments by the heuristics on the function's name, before the fallback
HeuristicArgs(fn_name, props) ==
    IF Contains("CustomerDependent", fn_name) THEN CustomerDependentArgs
    ELSE IF Contains("Guideline", fn_name) THEN GuidelineArgs
    ELSE IF fn_name = << "log_data" >> THEN LogDataArgs(props)
    ELSE IF Contains("Coherence", fn_name) THEN CoherenceArgs
    ELSE JDict(<< >>)

\* the fallback that keeps the arguments from being empty
ArgsOrFallback(args) == IF args = JDict(<< >>) THEN FallbackArgs ELSE args

\* the response that carries a function call
FunctionCallResponse(fn_name, args) ==
    [parts |-> << [functionCall |-> [name |-> fn_name, args |-> args]] >>,
     totalTokenCount |-> 70]

\* the function-call branch, for a non-empty list of function declarations
FunctionCall(function_declarations) ==
    LET first_fn == function_declarations[1]
        props == Get(Get(first_fn, "parameters", EmptyDict), "properties", << >>)
    IN  IF "name" \notin DOMAIN first_fn
        THEN Raised("TypeError")
        ELSE FunctionCallResponse(first_fn.name,
                 ArgsOrFallback(HeuristicArgs(first_fn.name, props)))

\* the JSON-mode documents of the known shapes
CustomerDependentActionDoc ==
    JDict(<< <<"action", JStr("reply")>>,
             <<"is_customer_dependent", JBool(FALSE)>> >>)
AgentIntentionProposerDoc ==
    JDict(<< <<"condition", JStr("The user greets")>>,
             <<"is_agent_intention", JBool(FALSE)>> >>)
ToolRunningActionDoc ==
    JDict(<< <<"action", JStr("reply")>>,
             <<"rationale", JStr("No tool needed")>>,
             <<"is_tool_running_only", JBool(FALSE)>> >>)
GuidelineContinuousPropositionDoc ==
    JDict(<< <<"rationale", JStr("Greeting is polite")>>,
             <<"is_continuous", JBool(TRUE)>> >>)
RelativeActionDoc ==
    JDict(<< <<"actions",
               JList(<< JDict(<< <<"index", JStr("0")>>,
                                 <<"conditions", JList(<< >>)>>,
                                 <<"action", JStr("reply")>>,
                                 <<"needs_rewrite_rationale", JStr("No rewrite needed")>>,
                                 <<"needs_rewrite", JBool(FALSE)>> >>) >>)>> >>)
ReachableNodesEvaluationDoc ==
    JDict(<< <<"step_action", JStr("Do something")>>,
             <<"step_action_completed", JStr("true")>>,
             <<"children_conditions", JNull>> >>)
CannedResponsePreambleDoc ==
    JDict(<< <<"preamble", JStr("I verified the information.")>> >>)
DisambiguationGuidelineMatchesDoc ==
    JDict(<< <<"tldr", JStr("User wants to do something")>>,
             <<"ambiguity_condition_met", JBool(FALSE)>>,
             <<"disambiguation_requested", JBool(FALSE)>>,
             <<"is_ambiguous", JBool(FALSE)>>,
             <<"guidelines", JList(<< >>)>>,
             <<"clarification_action", JNull>> >>)
GenericObservationalGuidelineMatchesDoc ==
    JDict(<< <<"checks", JList(<< >>)>> >>)
FallbackDoc ==
    JDict(<< <<"status", JStr("mock_json_response")>>,
             <<"note", JStr("Unidentified schema in prompt")>> >>)

\* the titles of the registry
RegistryTitles ==
    { "CustomerDependentActionSchema", "AgentIntentionProposerSchema",
      "ToolRunningActionSchema", "GuidelineContinuousPropositionSchema",
      "RelativeActionSchema", "ReachableNodesEvaluationSchema",
      "CannedResponsePreambleSchema", "DisambiguationGuidelineMatchesSchema",
      "GenericObservationalGuidelineMatchesSchema" }

\* the document of a title of the registry
TitleDoc(schema_title) ==
    CASE schema_title = "CustomerDependentActionSchema" -> CustomerDependentActionDoc
      [] schema_title = "AgentIntentionProposerSchema" -> AgentIntentionProposerDoc
      [] schema_title = "ToolRunningActionSchema" -> ToolRunningActionDoc
      [] schema_title = "GuidelineContinuousPropositionSchema" ->
             GuidelineContinuousPropositionDoc
      [] schema_title = "RelativeActionSchema" -> RelativeActionDoc
      [] schema_title = "ReachableNodesEvaluationSchema" -> ReachableNodesEvaluationDoc
      [] schema_title = "CannedResponsePreambleSchema" -> CannedResponsePreambleDoc
      [] schema_title = "DisambiguationGuidelineMatchesSchema" ->
             DisambiguationGuidelineMatchesDoc
      [] schema_title = "GenericObservationalGuidelineMatchesSchema" ->
             GenericObservationalGuidelineMatchesDoc

\* the keywords of the prompt heuristics
Keywords ==
    { "is_customer_dependent", "is_agent_intention", "is_tool_running_only",
      "is_continuous", "needs_rewrite", "step_action", "preamble",
      "is_ambiguous", "ambiguity" }

\* some keyword is in the lowered prompt
KeywordMatches(prompt) == \E word \in Keywords : Contains(word, prompt)

\* the document of the first keyword, in the order of the elif chain, that
\* is in the lowered prompt
KeywordDoc(prompt) ==
    IF Contains("is_customer_dependent", prompt) THEN CustomerDependentActionDoc
    ELSE IF Contains("is_agent_intention", prompt) THEN AgentIntentionProposerDoc
    ELSE IF Contains("is_tool_running_only", prompt) THEN ToolRunningActionDoc
    ELSE IF Contains("is_continuous", prompt) THEN GuidelineContinuousPropositionDoc
    ELSE IF Contains("needs_rewrite", prompt) THEN RelativeActionDoc
    ELSE IF Contains("step_action", prompt) THEN ReachableNodesEvaluationDoc
    ELSE IF Contains("preamble", prompt) THEN CannedResponsePreambleDoc
    ELSE DisambiguationGuidelineMatchesDoc

\* the text of the parts of the contents, concatenated
RECURSIVE PartsText(_)
PartsText(parts) ==
    IF parts = << >> THEN << >>
    ELSE Get(Head(parts), "text", << >>) \o PartsText(Tail(parts))
RECURSIVE PromptText(_)
PromptText(contents) ==
    IF contents = << >> THEN << >>
    ELSE PartsText(Get(Head(contents), "parts", << >>)) \o PromptText(Tail(contents))

\* the JSON-mode document: the title, then the keywords, then the response
\* schema, then the fallback
JsonResponse(generation_config, prompt_text) ==
    LET schema_title == Get(Get(generation_config, "responseSchema", EmptyDict),
                            "title", "")
    IN  IF schema_title \in RegistryTitles THEN TitleDoc(schema_title)
        ELSE IF KeywordMatches(Lower(prompt_text)) THEN KeywordDoc(Lower(prompt_text))
        ELSE IF /\ "responseSchema" \in DOMAIN generation_config
                /\ generation_config.responseSchema # EmptyDict
             THEN generate_mock_from_schema(generation_config.responseSchema)
             ELSE FallbackDoc

\* json.dumps of a document, and a plain text
JsonDumps(value) == [json |-> value]
PlainText(sentence) == [plain |-> sentence]

\* the response that carries a JSON document
JsonModeResponse(json_response) ==
    IF IsRaised(json_response) THEN json_response
    ELSE [parts |-> << [text |-> JsonDumps(json_response)] >>, totalTokenCount |-> 70]

\* the default text response
DefaultTextResponse ==
    [parts |-> << [text |-> PlainText("I understand your request. Here is my response based on the information provided.")] >>,
     totalTokenCount |-> 25]

\* generate_content
GenerateContent(req) ==
    LET function_declarations == FunctionDeclarations(req.tools)
        generation_config == req.generationConfig
        response_mime_type == Get(generation_config, "responseMimeType", << >>)
    IN  IF req.tools # << >> /\ function_declarations # << >>
        THEN FunctionCall(function_declarations)
        ELSE IF Contains("application/json", response_mime_type)
             THEN JsonModeResponse(JsonResponse(generation_config,
                                                PromptText(req.contents)))
             ELSE DefaultTextResponse

\* the names of declared functions, as words
FnNames ==
    { << "CustomerDependent", "Action", "Schema" >>,
      << "Guideline", "Continuous", "Proposition" >>,
      << "log_data" >>,
      << "Coherence", "Check" >>,
      << "get_weather" >> }

\* the property names the log_data heuristics look for, and one they do not
CheckProps ==
    { "is_continuous", "is_customer_dependent", "is_agent_intention",
      "is_tool_running_only", "actions", "step_action", "summary" }

\* the parameters of a declared log_data function: a property declared
\* directly, or wrapped in one log_data property, or two properties
LogDataParameters ==
    { [type |-> "OBJECT", properties |-> << <<key, [type |-> "BOOLEAN"]>> >>] :
          key \in CheckProps }
    \cup { [type |-> "OBJECT",
            properties |-> << <<"log_data",
                                [type |-> "OBJECT",
                                 properties |-> << <<key, [type |-> "BOOLEAN"]>> >>]>> >>] :
               key \in CheckProps }
    \cup { [type |-> "OBJECT",
            properties |-> << <<"step_action", [type |-> "STRING"]>>,
                              <<"is_continuous", [type |-> "BOOLEAN"]>> >>],
           [type |-> "OBJECT",
            properties |-> << <<"log_data", [type |-> "OBJECT"]>> >>] }

\* function declarations: a name alone, log_data with parameters, and one
\* without a name
FnDecls ==
    { [name |-> fn_name] : fn_name \in FnNames }
    \cup { [name |-> << "log_data" >>, parameters |-> parameters] :
               parameters \in LogDataParameters }
    \cup { [description |-> "nameless"] }

\* tools lists: none, tools that declare no function, one tool with one
\* declaration, and lists whose first declaration is not in the first tool
\* or is followed by another
ToolsLists ==
    { << >>,
      << [googleSearch |-> EmptyDict] >>,
      << [functionDeclarations |-> << >>] >>,
      << [googleSearch |-> EmptyDict], [codeExecution |-> EmptyDict] >> }
    \cup { << [functionDeclarations |-> << fd >>] >> : fd \in FnDecls }
    \cup { << [googleSearch |-> EmptyDict],
              [functionDeclarations |-> << [name |-> fn_name],
                                           [name |-> << "get_weather" >>] >>] >> :
               fn_name \in FnNames }

\* response schemas: one for each title of the registry, titled ones the
\* registry does not know, and untitled ones
ResponseSchemas ==
    { [title |-> schema_title, type |-> "OBJECT"] : schema_title \in RegistryTitles }
    \cup { [title |-> "WeatherReportSchema", type |-> "OBJECT",
            properties |-> << <<"summary", [type |-> "STRING"]>>,
                              <<"celsius", [type |-> "NUMBER"]>> >>],
           [title |-> "EmptySchema", type |-> "OBJECT"] }
    \cup LeafSchemas
    \cup { [type |-> "ARRAY", items |-> [type |-> "INTEGER"]],
           [type |-> "OBJECT",
            properties |-> << <<"ok", [type |-> "BOOLEAN"]>> >>] }

\* generation configs: none, plain text, JSON with or without a response
\* schema, and a response schema without the JSON MIME type
GenerationConfigs ==
    { EmptyDict,
      [responseMimeType |-> << "text/plain" >>],
      [responseMimeType |-> << "application/json" >>],
      [responseSchema |-> [type |-> "OBJECT"]],
      [responseMimeType |-> << "application/json", "; charset=utf-8" >>,
       responseSchema |-> [type |-> "BOOLEAN"]] }
    \cup { [responseMimeType |-> << "application/json" >>,
            responseSchema |-> response_schema] :
               response_schema \in ResponseSchemas }

\* contents: a prompt without a keyword, one with each keyword, one in upper
\* case, one with two keywords, one over two parts, one without text
Contents ==
    { << [role |-> "user", parts |-> << [text |-> << "Evaluate", "the", "request" >>] >>] >>,
      << [role |-> "user", parts |-> << [text |-> << "Set", "IS_CONTINUOUS" >>] >>] >>,
      << [role |-> "user", parts |-> << [text |-> << "preamble", "is_continuous" >>] >>] >>,
      << [role |-> "user", parts |-> << [text |-> << "Evaluate" >>],
                                        [inlineData |-> "image"],
                                        [text |-> << "the", "Preamble" >>] >>] >>,
      << [role |-> "user", parts |-> << [inlineData |-> "image"] >>] >>,
      << [role |-> "user"] >>,
      << >> }
    \cup { << [role |-> "user", parts |-> << [text |-> << "Fill", word >>] >>] >> :
               word \in Keywords }

\* the requests of the model
Requests ==
    [tools : ToolsLists, generationConfig : GenerationConfigs, contents : Contents]

\* no request has been made
NoRequest == [tools |-> << >>, generationConfig |-> EmptyDict, contents |-> << >>]

IdleGenerate ==
    /\ llm_request = NoRequest
    /\ llm_response = NotCalled

\* a request is about to be handled, for each request
InitGenerate ==
    /\ llm_request \in Requests
    /\ llm_response = NotCalled

\* the handler answers the request
generate_content ==
    /\ llm_response = NotCalled
    /\ llm_response' = GenerateContent(llm_request)
    /\ UNCHANGED llm_request
    /\ UNCHANGED notGenerate

NextGenerate == generate_content

-----------------------------------------------------------------------------
(* The mock LLM server: the embedding routes *)

\* len(vec) in batch_embed_contents: [0.1] * 3072
BatchDimension == 3072
\* len(vec) in its except branch: [0.1] * 768
FallbackDimension == 768
\* len(vec) in embed_content: [0.1] * 768
SingleDimension == 768

\* a float of a vector, held as its number of tenths
JTenths(n) == [tenths |-> n]

\* vec = [0.1] * dim; vec[i % dim] = 0.9
DenseVector(dim, i) ==
    JList([k \in 1..dim |-> JTenths(IF k = (i % dim) + 1 THEN 9 ELSE 1)])

\* a body request.json() cannot parse
Unparseable == [unparseable |-> TRUE]

IsDict(value) == "dict" \in DOMAIN value
IsList(value) == "list" \in DOMAIN value
IsStr(value) == "str" \in DOMAIN value

\* body.get(key, default) on a dict
DictGet(body, key, default) ==
    IF key \in Keys(body.dict) THEN Lookup(body.dict, key) ELSE default

\* what a for loop can run over: a list (its items) or a dict (its keys);
\* None and numbers raise TypeError
Iterable(value) == IsList(value) \/ IsDict(value)
IterLen(value) == IF IsList(value) THEN Len(value.list) ELSE Len(value.dict)

\* key in value: a key of a dict, an item of a list, a word of a string
\* (a string is held as the sequence of its words); None and numbers raise
\* TypeError
HasIn(value) == IsDict(value) \/ IsList(value) \/ IsStr(value)
In(key, value) ==
    IF IsDict(value) THEN key \in Keys(value.dict)
    ELSE IF IsList(value)
         THEN \E k \in DOMAIN value.list :
                 IsStr(value.list[k]) /\ value.list[k].str = <<key>>
         ELSE Contains(key, value.str)

\* {"embeddings": [{"values": vec}, ...]}
EmbeddingsAnswer(vecs) ==
    JDict(<< <<"embeddings",
               JList([k \in DOMAIN vecs |-> JDict(<< <<"values", vecs[k]>> >>)])>> >>)

\* {"predictions": [{"embeddings": {"values": vec}}, ...]}
PredictionsAnswer(vecs) ==
    JDict(<< <<"predictions",
               JList([k \in DOMAIN vecs |->
                        JDict(<< <<"embeddings",
                                   JDict(<< <<"values", vecs[k]>> >>)>> >>)])>> >>)

\* {"embedding": {"values": vec}}
EmbeddingAnswer(vec) ==
    JDict(<< <<"embedding", JDict(<< <<"values", vec>> >>)>> >>)

\* the except branch of batch_embed_contents
BatchFallback == EmbeddingsAnswer(<< DenseVector(FallbackDimension, 0) >>)

\* batch_embed_contents: whatever is raised in the try block (request.json()
\* on an unparseable body, .get on a body that is no dict, enumerate on what
\* cannot be run over) ends in the except branch
BatchEmbedContents(body) ==
    IF body = Unparseable THEN BatchFallback
    ELSE IF ~IsDict(body) THEN BatchFallback
    ELSE LET requests_list == DictGet(body, "requests", JList(<< >>))
         IN  IF ~Iterable(requests_list) THEN BatchFallback
             ELSE EmbeddingsAnswer([k \in 1..IterLen(requests_list) |->
                                       DenseVector(BatchDimension, k - 1)])

\* embed_content, which has no try block: request.json(), "instances" in
\* body and body["instances"] raise out of the handler
EmbedContent(body) ==
    LET vec == DenseVector(SingleDimension, 0)
    IN  IF body = Unparseable THEN Raised("JSONDecodeError")
        ELSE IF ~HasIn(body) THEN Raised("TypeError")
        ELSE IF In("instances", body)
             THEN IF ~IsDict(body) THEN Raised("TypeError")
                  ELSE LET instances == Lookup(body.dict, "instances")
                       IN  IF ~Iterable(instances) THEN Raised("TypeError")
                           ELSE PredictionsAnswer([k \in 1..IterLen(instances) |-> vec])
             ELSE EmbeddingAnswer(vec)

\* the vectors of an answer, in whichever of the three formats it has; none
\* when the handler raised
Vectors(response) ==
    IF IsRaised(response) THEN << >>
    ELSE LET key == response.dict[1][1]
             val == response.dict[1][2]
         IN  CASE key = "embeddings" ->
                    [k \in DOMAIN val.list |-> Lookup(val.list[k].dict, "values")]
               [] key = "predictions" ->
                    [k \in DOMAIN val.list |->
                       Lookup(Lookup(val.list[k].dict, "embeddings").dict, "values")]
               [] OTHER -> << Lookup(val.dict, "values") >>

\* the three routes
BatchRoute == "batchEmbedContents"
EmbedRoutes == {"embedContent", "predict"}

\* n items of a batch
Items(n) == [k \in 1..n |-> JDict(<< <<"content", JStr(<<"text">>)>> >>)]

\* what stands under a field of a body: a list of up to MaxBatch items, or
\* something that is no list
FieldValues ==
    { JList(Items(n)) : n \in 0..MaxBatch }
      \cup {JNull, JInt(5), JDict(<< <<"a", JInt(1)>> >>)}

\* the bodies: unparseable, JSON that is no object, objects with one of the
\* fields the routes read or with none
Bodies ==
    {Unparseable, JNull, JInt(5), JStr(<<"hello">>), JStr(<<"the", "instances">>),
     JList(<< >>), JList(<< JStr(<<"instances">>) >>), JDict(<< >>)}
      \cup { JDict(<< <<field, value>> >>) :
               field \in {"requests", "instances", "content"}, value \in FieldValues }

EmbedRequests == [route : {BatchRoute} \cup EmbedRoutes, body : Bodies]

\* what a route answers
EmbedAnswer(request) ==
    IF request.route = BatchRoute THEN BatchEmbedContents(request.body)
    ELSE EmbedContent(request.body)

\* no request has been made to an embedding route
IdleEmbed ==
    /\ embed_request = [route |-> "none", body |-> JNull]
    /\ embed_response = NotCalled

\* a request is about to be handled, for each route and body
InitEmbed ==
    /\ embed_request \in EmbedRequests
    /\ embed_response = NotCalled

\* POST /v1beta/models/{model}:batchEmbedContents
batch_embed_contents ==
    /\ embed_response = NotCalled
    /\ embed_request.route = BatchRoute
    /\ embed_response' = BatchEmbedContents(embed_request.body)
    /\ UNCHANGED embed_request
    /\ UNCHANGED notEmbed

\* POST /v1beta/models/{model}:embedContent and :predict
embed_content ==
    /\ embed_response = NotCalled
    /\ embed_request.route \in EmbedRoutes
    /\ embed_response' = EmbedContent(embed_request.body)
    /\ UNCHANGED embed_request
    /\ UNCHANGED notEmbed

NextEmbed ==
    \/ batch_embed_contents
    \/ embed_content

-----------------------------------------------------------------------------
(* Specifications *)

\* no load test is running
IdleShape == run_time = 0 /\ last_tick = NoTick

\* no streamGenerate call has been made; MOCK_TOKEN_COUNT is not set
IdleStream ==
    /\ TOKEN_COUNT = DefaultTokenCount
    /\ MIN_LATENCY = DefaultMinLatency
    /\ MAX_LATENCY = DefaultMaxLatency
    /\ gen_pc = "thinking"
    /\ gen_i = 0
    /\ stream = << >>
    /\ sleeps = << >>

\* the chaos server and its clients
Init == InitChaos /\ IdleShape /\ IdleStream /\ IdleParlant /\ IdleTasks /\ IdleSchema /\ IdleGenerate /\ IdleEmbed
Next == NextChaos
Spec == Init /\ [][Next]_vars

\* the server under chat traffic and the admin routes, from the shipped
\* configuration
SpecAdmin == Init /\ [][NextAdmin]_vars

\* chat traffic against a server whose error_rate has been set in the
\* source: the shipped value is 0.0 and no route changes it
InitChatErr == InitChaosErr /\ IdleShape /\ IdleStream /\ IdleParlant /\ IdleTasks /\ IdleSchema /\ IdleGenerate /\ IdleEmbed
SpecChatErr == InitChatErr /\ [][NextChat]_vars

\* one call of generate_mock_from_schema, for each schema
InitSchemaOnly ==
    /\ InitChaos /\ IdleShape /\ IdleStream /\ IdleParlant /\ IdleTasks
    /\ InitSchema /\ IdleGenerate /\ IdleEmbed
SpecSchema == InitSchemaOnly /\ [][NextSchema]_vars

\* one call of generate_content, for each request
InitGenerateOnly ==
    /\ InitChaos /\ IdleShape /\ IdleStream /\ IdleParlant /\ IdleTasks
    /\ IdleSchema /\ InitGenerate /\ IdleEmbed
SpecGenerate == InitGenerateOnly /\ [][NextGenerate]_vars

\* one request to an embedding route, for each route and body
InitEmbedOnly ==
    /\ InitChaos /\ IdleShape /\ IdleStream /\ IdleParlant /\ IdleTasks
    /\ IdleSchema /\ IdleGenerate /\ InitEmbed
SpecEmbed == InitEmbedOnly /\ [][NextEmbed]_vars

\* the load shape as the load test calls it
InitShapeOnly == InitChaos /\ InitShape /\ IdleStream /\ IdleParlant /\ IdleTasks /\ IdleSchema /\ IdleGenerate /\ IdleEmbed
SpecShape == InitShapeOnly /\ [][NextShape]_vars

\* the load shape under a runner whose clock goes on and which keeps
\* calling tick about once a second
SpecShapeLive ==
    /\ InitShapeOnly
    /\ [][NextShape]_vars
    /\ WF_vars(RunTimeElapses)
    /\ WF_vars(tick)

\* one streamGenerate call, for each MOCK_TOKEN_COUNT
InitStreamOnly == InitChaos /\ IdleShape /\ InitStream /\ IdleParlant /\ IdleTasks /\ IdleSchema /\ IdleGenerate /\ IdleEmbed
SpecStream == InitStreamOnly /\ [][NextStream]_vars

\* one Parlant user against any server, for each POLL_TIMEOUT
InitParlantOnly == InitChaos /\ IdleShape /\ IdleStream /\ InitParlant /\ IdleTasks /\ IdleSchema /\ IdleGenerate /\ IdleEmbed
SpecParlant == InitParlantOnly /\ [][NextParlant]_vars

\* the tasks of one AIUser, for each status and round trip
InitTasksOnly == InitChaos /\ IdleShape /\ IdleStream /\ IdleParlant /\ IdleTasks /\ IdleSchema /\ IdleGenerate /\ IdleEmbed
SpecTasks == InitTasksOnly /\ [][NextTasks]_vars

\* one Parlant user whose calls all return: a turn that has started goes on
SpecParlantLive ==
    /\ InitParlantOnly
    /\ [][NextParlant]_vars
    /\ WF_vars(poll_for_response_round)
    /\ WF_vars(poll_for_response_deadline)
    /\ WF_vars(send_and_wait_fire)

-----------------------------------------------------------------------------
(* Claims about the chaos server *)

\* the baseline of the specification: latency 0.5 s to 2.0 s, no errors,
\* both chaos flags off, nothing leaked
Baseline ==
    [ latency_min        |-> 1,
      latency_max        |-> 4,
      error_rate         |-> 0,
      memory_leak_active |-> FALSE,
      cpu_stress_active  |-> FALSE,
      memory_store       |-> << >> ]

\* C1: whatever the state POST /admin/reset finds, the state it leaves is
\* the baseline: latency_min 0.5, latency_max 2.0, error_rate 0, both flags
\* false and an empty leak buffer.
C1_ResetRestoresBaseline ==
    [][reset_simulation => SIMULATION_CONFIG' = Baseline]_vars

\* C1 witness: a chat has leaked a block, and the state is the baseline
\* again: a reset has cleared a buffer that was not empty.
C1_Witness ==
    /\ SIMULATION_CONFIG = Baseline
    /\ \E r \in Req : requests[r].status = "done" /\ requests[r].leaked

\* an analyze request that read cpu_stress_active as true and has not
\* returned yet: it is inside its busy-loop window
InCpuWindow(r) ==
    /\ requests[r].mode = "CPU_BOUND"
    /\ requests[r].status \in {"busy", "sleeping"}

\* C2: analyze requests that find cpu_stress_active set are serialized: no
\* two of them are ever inside their busy-loop windows at once, and each one
\* returns only when its own full target duration has gone by since it
\* entered the loop, so a request that had to wait for another's loop
\* returns a full target duration after it.
C2_BusyLoopsSerialized ==
    /\ \A a, b \in Req : a # b /\ InCpuWindow(a) => ~InCpuWindow(b)
    /\ \A r \in Req :
         requests[r].mode = "CPU_BOUND" =>
           /\ requests[r].left <= requests[r].target
           /\ requests[r].age >= requests[r].target - requests[r].left
           /\ requests[r].status = "done" => requests[r].left = 0

\* C2 witness: two CPU-bound analyze requests have returned, and the round
\* trip of one is the sum of both busy loops: it was sent no later than the
\* other entered its loop and could start only when that loop had returned.
C2_Witness ==
    \E a, b \in Req :
        /\ a # b
        /\ requests[a].status = "done" /\ requests[a].mode = "CPU_BOUND"
        /\ requests[b].status = "done" /\ requests[b].mode = "CPU_BOUND"
        /\ requests[a].age = requests[a].target
        /\ requests[b].age = requests[a].target + requests[b].target

\* C3: while an analyze request is inside its busy loop no handler takes a
\* step but that one: the health and admin handlers cannot run, the
\* SimulationState stays as it is and no other request starts, resumes or
\* returns (a client may still send one).
C3_BusyLoopStarvesAll ==
    /\ [](\A r \in Req :
            InCpuWindow(r) =>
              /\ ~ENABLED health_check
              /\ ~ENABLED trigger_latency_spike
              /\ ~ENABLED trigger_memory_leak
              /\ ~ENABLED trigger_cpu_spike
              /\ ~ENABLED reset_simulation)
    /\ [][\A r \in Req :
            InCpuWindow(r) =>
              /\ SIMULATION_CONFIG' = SIMULATION_CONFIG
              /\ \A q \in Req \ {r} :
                   \/ requests'[q].status = requests[q].status
                   \/ requests[q].status = "idle" /\ requests'[q].status = "pending"]_vars

\* C3 witness: an analyze request is in its busy loop, and a chat whose
\* sleep is over has been kept waiting past its delay.
C3_Witness ==
    \E r, q \in Req :
        /\ requests[r].status = "busy"
        /\ requests[r].left < requests[r].target
        /\ requests[q].kind = "chat"
        /\ requests[q].status = "sleeping"
        /\ requests[q].left = 0
        /\ requests[q].age > requests[q].target

\* C4: as long as no analyze request has found cpu_stress_active set, an
\* analyze request waits cooperatively: it is handled the moment it is
\* sent, its wait runs down whatever else is waiting, it returns exactly
\* one target duration after it was sent, and while it waits the health
\* and admin handlers and the chat handlers that are due can run.
C4_CooperativeWaitsOverlap ==
    (\A q \in Req : requests[q].mode # "CPU_BOUND") =>
      \A r \in Req :
        requests[r].kind = "analyze" =>
          /\ requests[r].status = "done" =>
               requests[r].mode = "IO_BOUND" /\ requests[r].age = requests[r].target
          /\ requests[r].status \in {"sleeping", "busy"} =>
               /\ requests[r].age + requests[r].left = requests[r].target
               /\ ENABLED health_check
               /\ ENABLED trigger_latency_spike
               /\ ENABLED trigger_memory_leak
               /\ ENABLED trigger_cpu_spike
               /\ ENABLED reset_simulation
               /\ \A q \in Req :
                    requests[q].kind = "chat" /\ Ready(q) =>
                      ENABLED (chat_endpoint_start(q) \/ chat_endpoint_resume(q))

\* C4 witness: two analyze requests are half way through their waits at the
\* same moment.
C4_Witness ==
    \E a, b \in Req :
        /\ a # b
        /\ requests[a].kind = "analyze" /\ requests[a].status = "sleeping"
        /\ requests[b].kind = "analyze" /\ requests[b].status = "sleeping"
        /\ requests[a].mode = "IO_BOUND" /\ requests[b].mode = "IO_BOUND"
        /\ requests[a].left = 1 /\ requests[a].age = 1
        /\ requests[b].left = 1 /\ requests[b].age = 1

\* C5: a request in flight when an admin operation is applied behaves as
\* the state it started under says: a chat grows the leak buffer iff
\* memory_leak_active was set when it started, and an analyze request runs
\* in the mode cpu_stress_active had when it started.
C5_InFlightKeepsStartState ==
    \A r \in Req :
        requests[r].status = "done" =>
          /\ requests[r].kind = "chat" =>
               requests[r].leaked = requests[r].seen_leak
          /\ requests[r].kind = "analyze" =>
               (requests[r].mode = "CPU_BOUND") = requests[r].seen_cpu

-----------------------------------------------------------------------------
(* Claims about the load shape *)

\* the threshold of the last stage
FinalThreshold == stages[Len(stages)].duration

\* the (users, spawn_rate) pairs of the stages
StagePairs == {<<stages[k].users, stages[k].spawn_rate>> : k \in 1..Len(stages)}

\* the place of a tick's result in the run of the test: the stages in
\* order, then the end of the test
Rank(t) == IF t.value = None THEN Len(stages) + 1 ELSE t.stage

\* C6: a tick at an elapsed time below the final threshold returns one
\* stage, a tick at or past it returns None, and from one tick to the next
\* the index of the stage returned never goes down.
C6_OneStageThenTerminate ==
    /\ [](last_tick # NoTick =>
            IF last_tick.at < FinalThreshold
            THEN /\ last_tick.stage \in 1..Len(stages)
                 /\ last_tick.value \in StagePairs
            ELSE last_tick.value = None)
    /\ [][last_tick # NoTick => Rank(last_tick') >= Rank(last_tick)]_vars

\* C6 witness: a tick at the final threshold itself has returned None.
C6_Witness ==
    /\ last_tick.at = FinalThreshold
    /\ last_tick.value = None

\* the threshold before stage k: where its window starts
WindowStart(k) == IF k = 1 THEN 0 ELSE stages[k - 1].duration

\* C7: stage k is returned exactly on [threshold(k-1), threshold(k)): on
\* [0,30) the pair (10,5), on [30,60) (50,10), on [60,90) (100,20), on
\* [90,120) (10,5), and None from 120 on, whatever the ticks before.
C7_HalfOpenWindows ==
    last_tick # NoTick =>
      /\ \A k \in 1..Len(stages) :
           (last_tick.stage = k) <=>
             (WindowStart(k) <= last_tick.at /\ last_tick.at < stages[k].duration)
      /\ last_tick.value =
           IF last_tick.at < 30 THEN <<10, 5>>
           ELSE IF last_tick.at < 60 THEN <<50, 10>>
           ELSE IF last_tick.at < 90 THEN <<100, 20>>
           ELSE IF last_tick.at < 120 THEN <<10, 5>>
           ELSE None

\* C7 witness: a tick at exactly 30 s has returned the second stage.
C7_Witness ==
    /\ last_tick.at = 30
    /\ last_tick.stage = 2
    /\ last_tick.value = <<50, 10>>

\* C8: the ticks of a running test come to return None, and a tick after
\* one that returned None returns None as well.
C8_TerminatesForGood ==
    /\ <>(last_tick.value = None)
    /\ [][last_tick.value = None => last_tick'.value = None]_vars

\* C8 witness: a tick later than the final threshold has returned None.
C8_Witness ==
    /\ last_tick.at > FinalThreshold
    /\ last_tick.value = None

-----------------------------------------------------------------------------
(* Claims about the streaming generator *)

Min(a, b) == IF a <= b THEN a ELSE b

IsChunk(item) == "text" \in DOMAIN item

\* C9: with TOKEN_COUNT >= 0 the call yields min(word_count, TOKEN_COUNT)
\* chunks, the k-th carrying the k-th word, then the terminator, which is
\* no chunk, once and last.
C9_ChunksThenTerminator ==
    TOKEN_COUNT >= 0 =>
      LET n == Min(Len(words), TOKEN_COUNT) IN
      /\ Len(stream) <= n + 1
      /\ \A k \in 1..Len(stream) :
           IF k <= n
           THEN /\ IsChunk(stream[k])
                /\ stream[k] # Done
                /\ stream[k].text = words[k] \o " "
           ELSE stream[k] = Done /\ ~IsChunk(stream[k])
      /\ (gen_pc = "done") <=> (Len(stream) = n + 1)

\* C9 witness: the call with the default TOKEN_COUNT has ended, after 20
\* chunks and the terminator.
C9_Witness ==
    /\ TOKEN_COUNT = DefaultTokenCount
    /\ gen_pc = "done"
    /\ Len(stream) = DefaultTokenCount + 1
    /\ stream[Len(stream)] = Done

\* C10: once the call has ended with at least one chunk yielded, the last
\* chunk carries finishReason STOP and the chunks before it carry none.
C10_LastChunkCarriesStop ==
    gen_pc = "done" /\ Len(stream) > 1 =>
      /\ stream[Len(stream) - 1].finishReason = "STOP"
      /\ \A k \in 1..(Len(stream) - 2) : stream[k].finishReason = None

\* the chunks among the items yielded so far
ChunksYielded == Len(SelectSeq(stream, IsChunk))

\* C11: the first suspension of a call is the thinking delay, it is over
\* before anything is yielded, and it lies in [MIN_LATENCY, MAX_LATENCY]
\* when MIN_LATENCY <= MAX_LATENCY; every chunk is followed by one
\* suspension of TOKEN_DELAY before the next item, and the terminator comes
\* only after the suspension of the last chunk.
C11_DelaysBetweenItems ==
    /\ stream # << >> => Len(sleeps) >= 1
    /\ Len(sleeps) >= 1 =>
         /\ sleeps[1].after = 0
         /\ MIN_LATENCY <= MAX_LATENCY =>
              MIN_LATENCY <= sleeps[1].secs /\ sleeps[1].secs <= MAX_LATENCY
         /\ ChunksYielded <= Len(sleeps)
         /\ Len(sleeps) <= ChunksYielded + 1
    /\ \A k \in 2..Len(sleeps) :
         sleeps[k].after = k - 1 /\ sleeps[k].secs = TOKEN_DELAY
    /\ gen_pc = "done" => Len(sleeps) = ChunksYielded + 1

\* C11 witness: a call with the default settings has ended; it thought for
\* a time strictly between the two bounds and slept after each of its 20
\* chunks.
C11_Witness ==
    /\ gen_pc = "done"
    /\ MIN_LATENCY = DefaultMinLatency /\ MAX_LATENCY = DefaultMaxLatency
    /\ TOKEN_COUNT = DefaultTokenCount
    /\ sleeps[1].secs > MIN_LATENCY /\ sleeps[1].secs < MAX_LATENCY
    /\ Len(sleeps) = DefaultTokenCount + 1

-----------------------------------------------------------------------------
(* Claims about the Parlant load test *)

\* C12: the poll loop returns true iff a poll answer of the turn held an
\* event of source ai_agent and kind message; it returns false when a poll
\* request failed or when the deadline came without such an event; while
\* the loop goes on neither has happened; and an empty answer is marked a
\* success, is no failure, and leaves the loop running: after it the loop
\* ends only by the deadline.
C12_PollLoopOutcomes ==
    /\ user_pc = "polled" =>
         /\ poll_result = turn.saw_agent
         /\ ~(turn.saw_agent /\ turn.poll_failed)
         /\ ~poll_result => (turn.poll_failed \/ elapsed >= POLL_TIMEOUT)
    /\ user_pc = "polling" => ~turn.saw_agent /\ ~turn.poll_failed
    /\ last_poll.answer = "empty" =>
         /\ last_poll.mark = "success"
         /\ ~turn.poll_failed
         /\ user_pc = "polled" => elapsed >= POLL_TIMEOUT

\* C12 witness: the loop has returned true after at least one empty answer.
C12_Witness ==
    /\ user_pc = "polled"
    /\ poll_result
    /\ turn.empties >= 1
    /\ last_poll.answer = "events"

\* C13: no poll is made at or after start_time + POLL_TIMEOUT; a poll loop
\* whose polls all return ends; and a loop that ended with false is
\* followed by one failure measurement and no further poll of that turn.
C13_DeadlineEndsTheLoop ==
    /\ [](last_poll # NoPoll => last_poll.at < POLL_TIMEOUT)
    /\ (user_pc = "polling") ~> (user_pc = "polled")
    /\ (user_pc = "polled") ~> (user_pc = "idle" /\ turn.fired = 1)
    /\ [][ user_pc = "polled" /\ ~poll_result =>
             /\ user_pc' = "idle"
             /\ measurement'.failed
             /\ turn'.fired = 1
             /\ last_poll' = last_poll
         ]_vars

\* C13 witness: a server that answered every poll of the turn with an empty
\* list; the deadline ended the loop and the turn was reported as failed.
C13_Witness ==
    /\ user_pc = "idle"
    /\ turn.sent
    /\ turn.empties >= 2
    /\ last_poll.answer = "empty"
    /\ elapsed >= POLL_TIMEOUT
    /\ measurement.failed
    /\ turn.fired = 1

\* C14: last_offset never decreases, whatever the step.
C14_LastOffsetNeverDecreases ==
    [][last_offset' >= last_offset]_vars

\* C15: a turn whose message was sent fires nothing while its poll loop
\* runs and exactly one measurement once the loop has ended; the duration
\* is the time since just before the send, so at least the time of each
\* call of the turn, and the measurement is a failure iff the loop
\* returned false.
C15_OneTurnMeasurement ==
    /\ user_pc \in {"polling", "polled"} =>
         /\ turn.sent
         /\ turn.fired = 0
         /\ measurement = NoMeasurement
    /\ user_pc = "idle" /\ turn.sent =>
         /\ turn.fired = 1
         /\ measurement.request_type = "Conversation"
         /\ measurement.response_time = turn.since_send * 1000
         /\ measurement.response_time >= turn.max_call * 1000
         /\ measurement.failed = ~poll_result

\* C15 witness: a turn of three seconds, two for the send and one for the
\* poll that brought the agent's message, has been recorded as a success.
C15_Witness ==
    /\ user_pc = "idle"
    /\ turn.sent
    /\ turn.fired = 1
    /\ turn.max_call = 2
    /\ measurement.response_time = 3000
    /\ ~measurement.failed

-----------------------------------------------------------------------------
(* Claims about the tasks of the chaos load test *)

\* C16: an analyze request is reported as a success iff its status is 200
\* and its round trip is at most 2.0 s.
C16_AnalyzeSuccessIffOkAndFast ==
    task = "heavy_analysis_request" =>
        (task_report.result = "success"
            <=> (task_status = 200 /\ task_elapsed <= 20))

\* C17: a health request gets one mark, which is its outcome: a timeout
\* failure if the round trip is above 1.0 s, whatever the status;
\* otherwise a status failure if the status is not 200; otherwise success.
C17_HealthOutcome ==
    task = "health_check" =>
        /\ Len(task_marks) = 1
        /\ task_report = task_marks[1]
        /\ task_elapsed > 10 =>
             task_report =
               Failure("Health Check Timeout: > 1s (Pod would be restarted)")
        /\ task_elapsed <= 10 /\ task_status # 200 =>
             task_report = Failure("Health Check Failed: Non-200 Status")
        /\ task_elapsed <= 10 /\ task_status = 200 => task_report = Success

\* C17 witness: a health request answered 503 after 1.1 s has been
\* reported as a timeout.
C17_Witness ==
    /\ task = "health_check"
    /\ task_status = 503
    /\ task_elapsed = 11
    /\ task_report.result = "failure"

\* C18: a chat request gets one mark, which is its outcome: success iff
\* the status is 200, the service-unavailable failure for 503, the
\* gateway-timeout failure for 504, and a failure naming the status for
\* every other status.
C18_ChatOutcome ==
    task = "chat_interaction" =>
        /\ Len(task_marks) = 1
        /\ task_report = task_marks[1]
        /\ task_report.result = "success" <=> task_status = 200
        /\ task_status = 503 =>
             task_report = Failure("503: Upstream Service Unavailable")
        /\ task_status = 504 =>
             task_report = Failure("504: Gateway Timeout")
        /\ task_status \notin {200, 503, 504} =>
             task_report = Failure("Error " \o ToString(task_status))

\* C18 witness: a chat request answered 404 has been reported as the
\* failure "Error 404".
C18_Witness ==
    /\ task = "chat_interaction"
    /\ task_status = 404
    /\ task_report = Failure("Error 404")

-----------------------------------------------------------------------------
(* More claims about the chaos server *)

\* error_rate is kept in percent: 100 is the probability 1.0
ErrorRateOne == 100

\* C19: in every reachable state, whichever handler looks at it,
\* 0 <= latency_min <= latency_max and 0 <= error_rate <= 1.
C19_ConfigRanges ==
    /\ 0 <= SIMULATION_CONFIG.latency_min
    /\ SIMULATION_CONFIG.latency_min <= SIMULATION_CONFIG.latency_max
    /\ 0 <= SIMULATION_CONFIG.error_rate
    /\ SIMULATION_CONFIG.error_rate <= ErrorRateOne

\* C19 witness: a latency spike is in force while a handler is suspended
\* and another is about to read the settings.
C19_Witness ==
    /\ SIMULATION_CONFIG.latency_min = 6
    /\ SIMULATION_CONFIG.latency_max = 16
    /\ \E r \in Req : requests[r].status = "sleeping"
    /\ \E r \in Req : requests[r].status = "pending"

\* C20: no step of chat, analyze, health or an activation makes the leak
\* buffer shorter; only a reset does, and a reset leaves it empty.
C20_LeakBufferOnlyGrows ==
    [][ \/ Len(SIMULATION_CONFIG'.memory_store)
             >= Len(SIMULATION_CONFIG.memory_store)
        \/ reset_simulation /\ SIMULATION_CONFIG'.memory_store = << >>
      ]_vars

\* C20 witness: a chat request has added a block to the buffer and an
\* analyze request has run its busy loop to the end; the leak is still
\* switched on and the buffer holds the chat's block and no other.
C20_Witness ==
    /\ Len(SIMULATION_CONFIG.memory_store) = 1
    /\ SIMULATION_CONFIG.memory_leak_active
    /\ \E c, a \in Req :
          /\ requests[c].kind = "chat" /\ requests[c].status = "done"
          /\ requests[c].leaked
          /\ requests[a].kind = "analyze" /\ requests[a].status = "done"
          /\ requests[a].mode = "CPU_BOUND"

\* C21: a latency spike sets latency_min to 3.0 and latency_max to 8.0 and
\* nothing else; the memory-leak switch sets memory_leak_active and nothing
\* else; the CPU spike sets cpu_stress_active and nothing else.
C21_ActivationsTouchOwnFields ==
    [][ /\ trigger_latency_spike =>
             SIMULATION_CONFIG' =
               [SIMULATION_CONFIG EXCEPT !.latency_min = 6, !.latency_max = 16]
        /\ trigger_memory_leak =>
             SIMULATION_CONFIG' =
               [SIMULATION_CONFIG EXCEPT !.memory_leak_active = TRUE]
        /\ trigger_cpu_spike =>
             SIMULATION_CONFIG' =
               [SIMULATION_CONFIG EXCEPT !.cpu_stress_active = TRUE]
      ]_vars

\* C21 witness: all three activations have acted on a state that holds a
\* leaked block; error_rate is still 0.
C21_Witness ==
    /\ SIMULATION_CONFIG.latency_min = 6
    /\ SIMULATION_CONFIG.latency_max = 16
    /\ SIMULATION_CONFIG.memory_leak_active
    /\ SIMULATION_CONFIG.cpu_stress_active
    /\ SIMULATION_CONFIG.error_rate = 0
    /\ Len(SIMULATION_CONFIG.memory_store) = 1

\* C22: from every state, each admin operation applied twice gives the
\* state it gives applied once.
C22_AdminOpsIdempotent ==
    \A op \in AdminOps :
        Apply(op, Apply(op, SIMULATION_CONFIG)) = Apply(op, SIMULATION_CONFIG)

\* C22 witness: a state away from the baseline, with two leaked blocks, on
\* which the latency spike and the leak switch have acted and act again
\* without effect, and which a reset would change.
C22_Witness ==
    /\ Len(SIMULATION_CONFIG.memory_store) = 2
    /\ Apply("latency_spike", SIMULATION_CONFIG) = SIMULATION_CONFIG
    /\ Apply("memory_leak", SIMULATION_CONFIG) = SIMULATION_CONFIG
    /\ Apply("reset", SIMULATION_CONFIG) # SIMULATION_CONFIG

\* C23 as stated: from every state, any two admin operations, reset
\* included, give the same state in either order.
C23_AllAdminOpsCommute ==
    \A a \in AdminOps, b \in AdminOps :
        Apply(a, Apply(b, SIMULATION_CONFIG))
            = Apply(b, Apply(a, SIMULATION_CONFIG))

\* C23 amended: from every state, any two of the three activations give
\* the same state in either order; a reset after any operation gives the
\* baseline, and an activation after a reset does not.
C23_ActivationsCommute ==
    /\ \A a \in AdminOps \ {"reset"}, b \in AdminOps \ {"reset"} :
         Apply(a, Apply(b, SIMULATION_CONFIG))
             = Apply(b, Apply(a, SIMULATION_CONFIG))
    /\ \A a \in AdminOps :
         Apply("reset", Apply(a, SIMULATION_CONFIG)) = Baseline
    /\ \A a \in AdminOps \ {"reset"} :
         Apply(a, Apply("reset", SIMULATION_CONFIG)) # Baseline

\* C23 witness: the three activations have acted, in some order, and no
\* request has been made.
C23_Witness ==
    /\ SIMULATION_CONFIG.latency_min = 6
    /\ SIMULATION_CONFIG.memory_leak_active
    /\ SIMULATION_CONFIG.cpu_stress_active
    /\ \A r \in Req : requests[r].status = "idle"

\* C24: a chat call that reaches its leak step while memory_leak_active is
\* true adds exactly one block to the end of the buffer, and nothing but a
\* chat call or a reset changes the buffer: k such calls, k more blocks.
C24_OneBlockPerChat ==
    [][ /\ \A r \in Req :
             chat_endpoint_resume(r) /\ SIMULATION_CONFIG.memory_leak_active =>
               SIMULATION_CONFIG'.memory_store
                   = Append(SIMULATION_CONFIG.memory_store, LeakBlock)
        /\ SIMULATION_CONFIG'.memory_store # SIMULATION_CONFIG.memory_store =>
             \/ reset_simulation
             \/ \E r \in Req : chat_endpoint_resume(r)
      ]_vars

\* C24 witness: leak mode is on and two chat calls have been handled under
\* it: the buffer holds two blocks.
C24_Witness ==
    /\ SIMULATION_CONFIG.memory_leak_active
    /\ SIMULATION_CONFIG.memory_store = << LeakBlock, LeakBlock >>
    /\ \A r \in Req : requests[r].kind = "chat" /\ requests[r].code = 200

\* C25: the answer of GET /health is the same whatever the leak buffer
\* holds.
C25_HealthHidesLeakBuffer ==
    HealthResponse(SIMULATION_CONFIG)
        = HealthResponse([SIMULATION_CONFIG EXCEPT !.memory_store = << >>])

\* C26: a chat request answered 503 leaves SIMULATION_CONFIG as it was,
\* leak buffer included; the error decision comes after the whole latency
\* suspension, and a request answered 503 has not taken the leak step.
C26_ErrorLeavesStateAlone ==
    /\ [][ \A r \in Req :
             chat_endpoint_resume(r) /\ requests'[r].code = 503 =>
               SIMULATION_CONFIG' = SIMULATION_CONFIG ]_vars
    /\ [](\A r \in Req :
             requests[r].code = 503 =>
               /\ requests[r].status = "done"
               /\ ~requests[r].leaked
               /\ requests[r].age >= requests[r].target)

\* C26 witness: with leak mode on, one chat request was answered 200 and
\* leaked a block, the other was answered 503, and the buffer holds one block.
C26_Witness ==
    /\ SIMULATION_CONFIG.memory_leak_active
    /\ Len(SIMULATION_CONFIG.memory_store) = 1
    /\ \E r \in Req : requests[r].code = 503 /\ requests[r].seen_leak
    /\ \E r \in Req : requests[r].code = 200 /\ requests[r].leaked


\* structural synthesis as stated: as generate_mock_from_schema, with an
\* empty object for a kind that is not known
RECURSIVE SynthesisAsSpecified(_)
SynthesisAsSpecified(schema) ==
    IF schema = EmptyDict THEN JDict(<< >>)
    ELSE LET schema_type == Upper(Get(schema, "type", "OBJECT")) IN
         CASE schema_type = "OBJECT" ->
                LET properties == Get(schema, "properties", << >>)
                    result == [i \in 1..Len(properties) |->
                                 << properties[i][1],
                                    SynthesisAsSpecified(properties[i][2]) >>]
                IN  IF \E i \in DOMAIN result : IsRaised(result[i][2])
                    THEN Raised("IndexError")
                    ELSE JDict(result)
           [] schema_type = "ARRAY" ->
                LET item == SynthesisAsSpecified(Get(schema, "items", EmptyDict)) IN
                IF IsRaised(item) THEN item ELSE JList(<< item >>)
           [] schema_type = "STRING" ->
                IF "enum" \in DOMAIN schema
                THEN IF schema.enum = << >> THEN Raised("IndexError")
                     ELSE JStr(schema.enum[1])
                ELSE JStr("mock_string")
           [] schema_type = "BOOLEAN" -> JBool(FALSE)
           [] schema_type = "INTEGER" -> JInt(1)
           [] schema_type = "NUMBER" -> JFloat(1)
           [] OTHER -> JDict(<< >>)

\* C30: structural synthesis maps every schema node as stated: OBJECT to a
\* mapping of the declared property names in declaration order, ARRAY to a
\* one-element sequence, STRING to the first enum value or the placeholder,
\* BOOLEAN to false, INTEGER to 1, NUMBER to 1.0, and an unknown kind or an
\* absent schema to an empty object
C30_SynthesisAsStated ==
    schema_out # NotCalled => schema_out = SynthesisAsSpecified(schema_in)

\* what holds instead: a node of an unknown kind is synthesized as None
C30_UnknownKindIsNone ==
    (schema_out # NotCalled /\ schema_in = [type |-> "NULL"]) => schema_out = JNull

\* the response carries one part, a function call / a JSON document
IsFunctionCall(resp) ==
    /\ "parts" \in DOMAIN resp
    /\ Len(resp.parts) = 1
    /\ "functionCall" \in DOMAIN resp.parts[1]
IsJsonText(resp) ==
    /\ "parts" \in DOMAIN resp
    /\ Len(resp.parts) = 1
    /\ "text" \in DOMAIN resp.parts[1]
    /\ "json" \in DOMAIN resp.parts[1].text

\* a document that is empty: an empty object or null
IsEmptyDocument(value) == value = JDict(<< >>) \/ value = JNull

\* C27: for every request whose tools list is not empty, whatever the tools
\* contain, the response is a function call whose name is the first declared
\* function's name and whose args are not empty, never a JSON text or the
\* filler text
C27_ToolsGiveFunctionCall ==
    (llm_response # NotCalled /\ llm_request.tools # << >>) =>
        /\ IsFunctionCall(llm_response)
        /\ FunctionDeclarations(llm_request.tools) # << >>
        /\ "name" \in DOMAIN FunctionDeclarations(llm_request.tools)[1]
        /\ llm_response.parts[1].functionCall.name =
               FunctionDeclarations(llm_request.tools)[1].name
        /\ ~IsEmptyDocument(llm_response.parts[1].functionCall.args)

\* C28: for every request, the arguments of a function call and the document
\* of a JSON-mode response are never empty: neither an empty object nor null
C28_NeverEmpty ==
    /\ (llm_response # NotCalled /\ IsFunctionCall(llm_response)) =>
           ~IsEmptyDocument(llm_response.parts[1].functionCall.args)
    /\ (llm_response # NotCalled /\ IsJsonText(llm_response)) =>
           ~IsEmptyDocument(llm_response.parts[1].text.json)

\* the JSON-mode document by the order of strategies as stated: the title
\* against the registry; the keywords only when the request has no title;
\* the response schema; the fallback
JsonResponseAsStated(generation_config, prompt_text) ==
    LET schema_title == Get(Get(generation_config, "responseSchema", EmptyDict),
                            "title", "")
    IN  IF schema_title \in RegistryTitles THEN TitleDoc(schema_title)
        ELSE IF schema_title = "" /\ KeywordMatches(Lower(prompt_text))
             THEN KeywordDoc(Lower(prompt_text))
        ELSE IF /\ "responseSchema" \in DOMAIN generation_config
                /\ generation_config.responseSchema # EmptyDict
             THEN generate_mock_from_schema(generation_config.responseSchema)
             ELSE FallbackDoc

\* C29: JSON-mode synthesis tries the title against the registry first, the
\* keywords of the prompt only when the request has no title, the response
\* schema when neither matches, and the fallback last: a request with a
\* title the registry does not know and a response schema is answered by the
\* synthesis of that schema, whatever its prompt contains
C29_JsonStrategyOrder ==
    (llm_response # NotCalled /\ IsJsonText(llm_response)) =>
        llm_response.parts[1].text.json =
            JsonResponseAsStated(llm_request.generationConfig,
                                 PromptText(llm_request.contents))

\* an analyze request whose handler has started and has not returned
AnalyzeWaiting(r) ==
    /\ requests[r].kind = "analyze"
    /\ requests[r].status \in {"sleeping", "busy"}

\* C35: an analyze request decides its mode and its target duration once, at
\* its start, from the state current at that moment: the target is twice
\* latency_min in both modes (1.0 s at baseline, 6.0 s after latency_spike)
\* and the mode is CPU_BOUND iff cpu_stress_active was true at the start; a
\* chaos mutation applied while the request waits changes neither.
C35_AnalyzeDecidesAtStart ==
    [][\A r \in Req :
         /\ (requests[r].kind = "analyze" /\ requests[r].status = "pending"
               /\ requests'[r].status # "pending") =>
              /\ requests'[r].target = 2 * SIMULATION_CONFIG.latency_min
              /\ requests'[r].target \in {2, 12}
              /\ requests'[r].mode = "CPU_BOUND"
                   <=> SIMULATION_CONFIG.cpu_stress_active
              /\ requests'[r].mode \in {"CPU_BOUND", "IO_BOUND"}
         /\ AnalyzeWaiting(r) =>
              /\ requests'[r].target = requests[r].target
              /\ requests'[r].mode = requests[r].mode
      ]_vars

\* C35 witness: an analyze request started at the baseline waits in IO_BOUND
\* mode for 1.0 s while the latency spike and the CPU spike have since been
\* applied.
C35_Witness ==
    \E r \in Req :
        /\ AnalyzeWaiting(r)
        /\ requests[r].mode = "IO_BOUND"
        /\ requests[r].target = 2
        /\ SIMULATION_CONFIG.cpu_stress_active
        /\ SIMULATION_CONFIG.latency_min = 6

\* a step of an analyze handler: the request leaves the state it was in
AnalyzeSteps(r) ==
    /\ requests[r].kind = "analyze"
    /\ requests[r].status \in {"pending", "sleeping", "busy"}
    /\ requests'[r] # requests[r]

\* a step of a chat handler that returns
ChatReturns(r) ==
    /\ requests[r].kind = "chat"
    /\ requests[r].status = "sleeping"
    /\ requests'[r].status = "done"

\* C40: health and analyze requests are read-only with respect to the chaos
\* state: in both analyze modes and for every interleaving they leave every
\* field of the state unchanged; only chat (the leak buffer) and the admin
\* operations modify it.
C40_HealthAndAnalyzeReadOnly ==
    [][/\ health_check => SIMULATION_CONFIG' = SIMULATION_CONFIG
       /\ (\E r \in Req : AnalyzeSteps(r)) => SIMULATION_CONFIG' = SIMULATION_CONFIG
       /\ SIMULATION_CONFIG' # SIMULATION_CONFIG =>
            \/ /\ \E op \in AdminOps :
                    SIMULATION_CONFIG' = Apply(op, SIMULATION_CONFIG)
               /\ requests' = requests
            \/ \E r \in Req :
                 /\ ChatReturns(r)
                 /\ SIMULATION_CONFIG' =
                      [SIMULATION_CONFIG EXCEPT !.memory_store = Append(@, LeakBlock)]
      ]_vars

\* C40 witness: an analyze request in each mode has returned, and the state
\* is away from the baseline in every field an activation sets, with a block
\* in the leak buffer.
C40_Witness ==
    /\ \E r \in Req : requests[r].kind = "analyze" /\ requests[r].status = "done"
                      /\ requests[r].mode = "CPU_BOUND"
    /\ SIMULATION_CONFIG.memory_store # << >>
    /\ SIMULATION_CONFIG.memory_leak_active
    /\ SIMULATION_CONFIG.cpu_stress_active

\* C37: no operation of the chaos server sets error_rate to a non-zero
\* value: in every reachable state error_rate is 0 and no chat request has
\* returned the injected 503, under any sequence of admin operations and
\* requests.
C37_ErrorRateStaysZero ==
    /\ SIMULATION_CONFIG.error_rate = 0
    /\ \A r \in Req : requests[r].code # 503

\* C37 witness: the three activations are in force and a chat request that
\* started under them has returned 200.
C37_Witness ==
    /\ SIMULATION_CONFIG.latency_min = 6
    /\ SIMULATION_CONFIG.memory_leak_active
    /\ SIMULATION_CONFIG.cpu_stress_active
    /\ \E r \in Req :
         /\ requests[r].kind = "chat"
         /\ requests[r].status = "done"
         /\ requests[r].target = 6
         /\ requests[r].code = 200

\* C38: in every reachable state a non-empty leak buffer implies that
\* memory_leak_active is true: the buffer grows only while the flag is set,
\* and reset clears the flag and empties the buffer in one step, so after a
\* reset the buffer stays empty until the next memory_leak activation even
\* if chat requests were in flight across the reset.
C38_LeakedOnlyWhileActive ==
    SIMULATION_CONFIG.memory_store # << >> => SIMULATION_CONFIG.memory_leak_active

\* C38 witness: a chat request that started with the leak on has returned
\* after a reset without leaking: the flag is off and the buffer is empty.
C38_Witness ==
    /\ ~SIMULATION_CONFIG.memory_leak_active
    /\ SIMULATION_CONFIG.memory_store = << >>
    /\ \E r \in Req :
         /\ requests[r].kind = "chat"
         /\ requests[r].status = "done"
         /\ requests[r].seen_leak
         /\ ~requests[r].leaked
         /\ requests[r].code = 200

\* a poll request is made in this step
PollIsMade ==
    /\ user_pc = "polling"
    /\ elapsed' > elapsed

\* an event's offset as the loop counts it: 0 for an event without one
Counted(offset) == IF offset = -1 THEN 0 ELSE offset

\* C34: after each poll response that contains at least one event,
\* last_offset is one plus the largest offset among the events of that
\* response, an event without an offset counting as offset 0, and the next
\* poll passes that value as min_offset; a poll response with no events, and
\* a failed poll, leave last_offset unchanged.
C34_OffsetFollowsEachResponse ==
    [][PollIsMade =>
         /\ last_poll'.min_offset = last_offset
         /\ last_poll'.answer = "events" =>
              /\ \E o \in last_poll'.offsets : last_offset' = Counted(o) + 1
              /\ \A o \in last_poll'.offsets : last_offset' >= Counted(o) + 1
         /\ last_poll'.answer \in {"empty", "error"} =>
              last_offset' = last_offset
      ]_vars

\* C34 witness: a poll was made with min_offset above 1, and its response,
\* of one event with offset 0 and one without an offset, has put
\* last_offset to 1.
C34_Witness ==
    /\ last_poll.answer = "events"
    /\ last_poll.min_offset > 1
    /\ last_poll.offsets = {-1, 0}
    /\ last_offset = 1

\* C33: a turn is reported successful only on the agent reply that
\* corresponds to that turn's message: the agent message that ends a turn's
\* poll loop was produced after that turn's user message was sent, so a late
\* reply to an earlier turn that timed out is never counted as the reply of
\* a later turn.
C33_SuccessOnOwnReply ==
    (measurement # NoMeasurement /\ ~measurement.failed) => ~turn.late

\* the turn in hand was given up at its send: a task got as far as the
\* send (it has a metric name) and the send was not answered 200
Abandoned(t) == t.metric # None /\ ~t.sent

\* C36: a turn whose send is not answered 200 is abandoned.  The task step
\* that makes the failed send leaves the user idle with no poll request and
\* no turn measurement, and leaves the session_id and last_offset it found
\* (a task of a user who has a session changes neither); as long as that
\* turn is the one in hand no poll is made and no measurement is fired.
C36_FailedSendAbandonsTurn ==
    /\ [](Abandoned(turn) =>
            /\ user_pc = "idle"
            /\ last_poll = NoPoll
            /\ measurement = NoMeasurement
            /\ turn.fired = 0)
    /\ [][(user_pc = "idle" /\ Truthy(session_id) /\ Abandoned(turn'))
              => /\ session_id' = session_id
                 /\ last_offset' = last_offset
                 /\ agent_id' = agent_id]_vars

\* a send has failed on a session whose offset had moved: the turn is given
\* up after an earlier turn of the same session polled and got events
C36_Witness ==
    /\ Abandoned(turn)
    /\ user_pc = "idle"
    /\ Truthy(session_id)
    /\ last_offset > 0
    /\ turn.owed

\* C39: the session of a virtual user is stable.  No message is sent and no
\* poll is made while session_id is unset (None or empty, what the tasks
\* test with "not self.session_id"); a task that finds no session and still
\* has none after _create_session does nothing more (no turn, no poll, no
\* measurement, the user stays idle); a session_id that has been set is
\* never changed or cleared.
C39_SessionIsStable ==
    /\ []((\/ turn.metric # None
           \/ last_poll # NoPoll
           \/ measurement # NoMeasurement
           \/ user_pc \in {"polling", "polled"}) => Truthy(session_id))
    /\ [][Truthy(session_id) => session_id' = session_id]_vars
    /\ [][(user_pc = "idle" /\ ~Truthy(session_id) /\ ~Truthy(session_id'))
              => /\ turn' = NoTurn
                 /\ user_pc' = "idle"
                 /\ last_poll' = NoPoll
                 /\ measurement' = NoMeasurement
                 /\ last_offset' = last_offset]_vars

\* a turn that got no reply (failed or timed out) has been followed by the
\* send of a further turn on the session
C39_Witness ==
    /\ Truthy(session_id)
    /\ turn.sent
    /\ turn.owed
    /\ user_pc = "polling"

\* the field a route reads its inputs from
InputField(route) ==
    CASE route = "batchEmbedContents" -> "requests"
      [] route = "predict" -> "instances"
      [] OTHER -> "content"

\* a batch request: batchEmbedContents with a list of requests, or predict
\* with a list of instances
IsBatchRequest(request) ==
    /\ request.route \in {"batchEmbedContents", "predict"}
    /\ IsDict(request.body)
    /\ InputField(request.route) \in Keys(request.body.dict)
    /\ IsList(Lookup(request.body.dict, InputField(request.route)))

\* its size N
BatchSize(request) ==
    Len(Lookup(request.body.dict, InputField(request.route)).list)

\* the lengths of the vectors the server returns, over the routes and bodies
ServedDimensions ==
    UNION { { Len(Vectors(EmbedAnswer(rq))[k].list) :
                k \in DOMAIN Vectors(EmbedAnswer(rq)) } : rq \in EmbedRequests }

\* C31: a batch request of size N (batchEmbedContents with N requests, predict
\* with N instances) is answered with exactly N vectors, pairwise distinct,
\* all of one dimension, which is the dimension of every vector the server
\* returns.
C31_BatchVectorsDistinctOneDimension ==
    (embed_response # NotCalled /\ IsBatchRequest(embed_request)) =>
        LET vecs == Vectors(embed_response)
        IN  /\ ~IsRaised(embed_response)
            /\ Len(vecs) = BatchSize(embed_request)
            /\ \A i, j \in DOMAIN vecs : i # j => vecs[i] # vecs[j]
            /\ \A i \in DOMAIN vecs : ServedDimensions = {Len(vecs[i].list)}

\* an embedding request whose body is malformed: it cannot be parsed, it is
\* no object, or it is an object without the field the route reads
Malformed(request) ==
    \/ request.body = Unparseable
    \/ ~IsDict(request.body)
    \/ InputField(request.route) \notin Keys(request.body.dict)

\* C32: a malformed embedding request never fails: every embedding route
\* answers it with exactly one fallback vector.
C32_MalformedGivesOneFallback ==
    (embed_response # NotCalled /\ Malformed(embed_request)) =>
        /\ ~IsRaised(embed_response)
        /\ Len(Vectors(embed_response)) = 1

=============================================================================
